---- MODULE Spec2Model ----
(***************************************************************************)
(* Cross-process synchronisation subsystem of the Scripture Forge          *)
(* extension: the forked SF-PDP worker (sf-pdp/src/index.ts), the host's   *)
(* child-process handler (projects/child-process-handler.ts), the realtime *)
(* back-end connection manager (sf-backend/scripture-forge-back-end-       *)
(* connection.ts) and the throttled project directory cache                *)
(* (slingshot-project-data-provider-engine-factory.model.ts).              *)
(*                                                                         *)
(* Each subsystem has its own specification over the shared variables:     *)
(*   SpecWorker  the worker fed by an arbitrary peer on its IPC channel    *)
(*   SpecHost    the host handler fed by an arbitrary peer                 *)
(*   SpecConn    the connection manager and its document caches            *)
(*   SpecDir     the directory cache                                       *)
(***************************************************************************)
EXTENDS Integers, Sequences, FiniteSets, TLC

(* ------------------------------ bounds --------------------------------- *)
\* messages an arbitrary peer puts on an IPC channel
MaxPeerMsgs == 3
\* calls of SfPdpProcess.getProjects through the registered PDP factory
MaxGetProjectsCalls == 2
\* concurrent callers of the connection manager
NumTasks == 2
\* calls made to the connection manager in one run
MaxOps == 3
\* getAvailableProjects() calls made to the factory in one run
NumCallers == 3
\* times the clock is advanced in one run
MaxTicks == 2
\* login() calls made to the authentication provider in one run
NumLogins == 2
\* getProjectDataProviderId() calls made to the PDP factory in one run
NumPdpCalls == 3

(* ------------------------- program constants --------------------------- *)
WEBSOCKET_PORT == 8876

VARIABLES
  \* ---- worker: SfPdpProcess (index.ts) ----
  forked,                 \* process.send is defined
  wpc,                    \* "unstarted" | "running" | "exited"
  exitCode,               \* <<>> while alive, <<code>> after process.exit(code)
  nextMsgId,
  config,                 \* <<>> for {} , else <<[httpBaseUrl, wssBaseUrl, papiPort]>>
  receivedPing,
  receivedPong,
  rpcClient,              \* "none" | "created"
  currentAuthToken,       \* <<>> for undefined, else <<token>>
  pendingProjectResults,  \* 0 for undefined, else index into gpAv
  initStep,               \* position of the async block of handleInitialize
  getProjectsMessage,     \* pdp-factory.ts: the retriever has been set
  gpAv,                   \* the AsyncVariables created by getProjects, by index
  \* worker history (what the worker's log lines record)
  wRecvCount,             \* messages handled, per type
  wDropped,               \* messages refused by the handshake gate
  gpCalls,                \* one record per getProjects() call
  rpcClientsCreated,
  sfConnects,
  wSent,                  \* every message handed to process.send, in order
  initLog,                \* the steps of handleInitialize's async block that succeeded
  \* ---- IPC channels (FIFO) ----
  h2w,                    \* parent -> worker
  w2h,                    \* worker -> parent
  peerSent,               \* messages injected by the arbitrary peer
  \* ---- host: child-process-handler.ts ----
  childProcess,           \* the module's childProcess is set
  hNextMessageId,
  hFetching,              \* sfApi.getProjects() calls awaiting their answer
  hInitializing,          \* sendInitializeMessage() runs awaiting settings / login / token
  hRecvCount,             \* messages handled, per type
  hRemoteCalls,           \* sfApi.getProjects() calls made
  hSent,                  \* every message handed to childProcess.send, in order
  \* ---- connection manager: scripture-forge-back-end-connection.ts ----
  connectionAsyncVariable, \* 0 for undefined, else index into connAvs
  socket,                 \* 0 for undefined, else index into sockets
  connAvs,                \* the connection AsyncVariables created, by index
  sockets,                \* the transports created, by index
  projectDocuments,       \* projectId -> <<>> or <<cached entry>>
  chapterDeltas,          \* textId -> <<>> or <<cached entry>>
  tasks,                  \* the calls in progress, one record per caller
  opsStarted,             \* calls made so far
  epoch,                  \* disconnect() calls that have completed
  session,                \* advances when a disconnect() starts and when it clears the variable
  transportsInSession,    \* sockets created in the current session
  \* ---- directory cache: SlingshotProjectDataProviderEngineFactory ----
  now,                    \* Date.now()
  dirTicks,               \* times the clock was advanced
  lastGetProjectsTime,
  lastAvailableProjects,  \* the snapshot array: [ref, items]
  nextRef,                \* identity of the next array created
  isLoggedOut,
  sessionSubscribed,      \* the onDidSessionChange handler is subscribed
  projectInfoByAppProjectId,
  pdpeByAppProjectId,
  getProjectsMutex,       \* callers in acquire order; the head holds the mutex
  callers,                \* the #getAvailableProjects calls, one record per caller
  dirRemoteCalls,         \* scriptureForgeApi.getProjects() calls made
  lastRecomputedAt,       \* history: Date.now() when the snapshot was last assigned
  recovery,               \* history: the calls that came first after a session change
  \* ---- authentication: ScriptureForgeAuthenticationProvider ----
  redirectUri,            \* <<>> before construction, else <<a redirect uri was given>>
  hasRetrievedAuthTokensFromStorage,
  authTokens,             \* "none" for undefined, "valid" for a stored token set
  authorizeRequestInfo,   \* 0 for undefined, else index into authCodeAvs (its state)
  authCodeAvs,            \* the authorization code AsyncVariables created, by index
  authTokensMutex,        \* tasks in acquire order; the head holds the mutex
  logins,                 \* the login() calls, one record per caller
  \* ---- PDP factory: pdp-factory.ts ----
  pdpRpcClient,           \* the module's rpcClient is set
  knownPdps,              \* projectId -> <<>> or <<pdpId of the stored provider>>
  pdpRegistrations,       \* the providers registered on the network, in order
  pdpCalls                \* the getProjectDataProviderId calls, one record per caller

workerVars == <<forked, wpc, exitCode, nextMsgId, config, receivedPing, receivedPong,
                rpcClient, currentAuthToken, pendingProjectResults, initStep,
                getProjectsMessage, gpAv, wRecvCount, wDropped, gpCalls,
                rpcClientsCreated, sfConnects, wSent, initLog>>
chanVars == <<h2w, w2h, peerSent>>
hostVars == <<childProcess, hNextMessageId, hFetching, hInitializing, hRecvCount,
              hRemoteCalls, hSent>>
connVars == <<connectionAsyncVariable, socket, connAvs, sockets, projectDocuments,
              chapterDeltas, tasks, opsStarted, epoch, session, transportsInSession>>
dirVars == <<now, dirTicks, lastGetProjectsTime, lastAvailableProjects, nextRef,
             isLoggedOut, sessionSubscribed, projectInfoByAppProjectId,
             pdpeByAppProjectId, getProjectsMutex, callers, dirRemoteCalls,
             lastRecomputedAt, recovery>>
authVars == <<redirectUri, hasRetrievedAuthTokensFromStorage, authTokens, authorizeRequestInfo, authCodeAvs,
              authTokensMutex, logins>>
pdpVars == <<pdpRpcClient, knownPdps, pdpRegistrations, pdpCalls>>
vars == <<workerVars, chanVars, hostVars, connVars, dirVars, authVars, pdpVars>>

\* what a step of one subsystem leaves alone
NotWorker == <<hostVars, connVars, dirVars, authVars, pdpVars>>
NotHost == <<workerVars, connVars, dirVars, authVars, pdpVars>>
NotConn == <<workerVars, chanVars, hostVars, dirVars, authVars, pdpVars>>
NotDir == <<workerVars, chanVars, hostVars, connVars, authVars, pdpVars>>
NotAuth == <<workerVars, chanVars, hostVars, connVars, dirVars, pdpVars>>
NotPdp == <<workerVars, chanVars, hostVars, connVars, dirVars, authVars>>

(* ------------------------------ messages ------------------------------- *)
\* sf-pdp-ipc-message.ts: the closed list of message types
SfPdpIpcMessageTypes ==
  {"authToken", "error", "getProjects", "initialize", "ping", "pong",
   "projectResults", "shutdown"}

\* A type outside the closed list, as a newer or older peer may send
UnknownType == "unknown"

\* SfPdpIpcMessage with every variant's payload fields (unused ones empty)
SfPdpIpcMessage(type, id) ==
  [type |-> type, id |-> id, init |-> <<>>, projectIds |-> <<>>, text |-> ""]

createPingMessage(id) == SfPdpIpcMessage("ping", id)
createPongMessage(id) == SfPdpIpcMessage("pong", id)
createGetProjectsMessage(id) == SfPdpIpcMessage("getProjects", id)
createErrorMessage(id, message) ==
  [SfPdpIpcMessage("error", id) EXCEPT !.text = message]
createProjectResultsMessage(id, projectIds) ==
  [SfPdpIpcMessage("projectResults", id) EXCEPT !.projectIds = projectIds]
createShutdownMessage(id, reason) ==
  [SfPdpIpcMessage("shutdown", id) EXCEPT !.text = reason]
createInitializeMessage(id, authToken, httpBaseUrl, wssBaseUrl, papiPort) ==
  [SfPdpIpcMessage("initialize", id) EXCEPT
     !.init = <<[authToken |-> authToken, httpBaseUrl |-> httpBaseUrl,
                 wssBaseUrl |-> wssBaseUrl, papiPort |-> papiPort]>>]

\* Number of messages of a type in a sequence of messages
CountType(log, type) == Cardinality({i \in 1..Len(log) : log[i].type = type})


(* ======================= worker: SfPdpProcess =========================== *)
HandshakeTypes == {"error", "ping", "pong"}

\* index.ts 76-81: process.exit(code) ends the process at once
exitProcess(code) == wpc' = "exited" /\ exitCode' = <<code>>
StayRunning == UNCHANGED <<wpc, exitCode>>

\* a failed back-end connection that exits with the code of the step before it
SfConnectFailed_asPapi == exitProcess(102)

\* index.ts 155-157: the catch block of the back-end connection step
SfConnectFailed == exitProcess(103)

NoSend == UNCHANGED <<w2h, wSent, wDropped>>

\* A gate that refuses only while neither ping nor pong has been received
sendMessage_eitherFlag(rPing, rPong, message) ==
  IF (~rPing /\ ~rPong) /\ message.type \notin HandshakeTypes
    THEN wDropped' = Append(wDropped, message) /\ UNCHANGED <<w2h, wSent>>
    ELSE /\ w2h' = Append(w2h, message)
         /\ wSent' = Append(wSent, message)
         /\ UNCHANGED wDropped

\* index.ts 83-98: rPing / rPong are the flags at the moment of the call
sendMessage(rPing, rPong, message) ==
  IF (~rPing \/ ~rPong) /\ message.type \notin HandshakeTypes
    THEN wDropped' = Append(wDropped, message) /\ UNCHANGED <<w2h, wSent>>
    ELSE /\ w2h' = Append(w2h, message)
         /\ wSent' = Append(wSent, message)
         /\ UNCHANGED wDropped

\* a start() that does not test process.send
WorkerStart_noForkCheck ==
  /\ UNCHANGED NotWorker
  /\ wpc = "unstarted"
  /\ wpc' = "running"
  /\ UNCHANGED exitCode
  /\ IF forked
       THEN sendMessage(receivedPing, receivedPong, createPingMessage(nextMsgId))
       ELSE NoSend
  /\ nextMsgId' = nextMsgId + 1
  /\ UNCHANGED <<initLog, forked, config, receivedPing, receivedPong, rpcClient, currentAuthToken,
                 pendingProjectResults, initStep, getProjectsMessage, gpAv, wRecvCount,
                 gpCalls, rpcClientsCreated, sfConnects, h2w, peerSent>>

\* index.ts 49-66
WorkerStart ==
  /\ UNCHANGED NotWorker
  /\ wpc = "unstarted"
  /\ IF ~forked
       THEN /\ exitProcess(100)
            /\ NoSend
            /\ UNCHANGED nextMsgId
       ELSE /\ wpc' = "running"
            /\ UNCHANGED exitCode
            /\ sendMessage(receivedPing, receivedPong, createPingMessage(nextMsgId))
            /\ nextMsgId' = nextMsgId + 1
  /\ UNCHANGED <<initLog, forked, config, receivedPing, receivedPong, rpcClient, currentAuthToken,
                 pendingProjectResults, initStep, getProjectsMessage, gpAv, wRecvCount,
                 gpCalls, rpcClientsCreated, sfConnects, h2w, peerSent>>

\* index.ts 62-63: SIGINT / SIGTERM
WorkerSignal ==
  /\ UNCHANGED NotWorker
  /\ wpc = "running"
  /\ exitProcess(0)
  /\ NoSend
  /\ UNCHANGED <<initLog, forked, nextMsgId, config, receivedPing, receivedPong, rpcClient,
                 currentAuthToken, pendingProjectResults, initStep, getProjectsMessage,
                 gpAv, wRecvCount, gpCalls, rpcClientsCreated, sfConnects, h2w, peerSent>>

\* handleInitialize's guard that always lets the message through
AlreadyInitialized_never == FALSE

\* index.ts 125
AlreadyInitialized == Len(config) > 0 \/ rpcClient # "none"

\* index.ts 124-146: the handler and the async block up to its first await
handleInitialize(message) ==
  IF AlreadyInitialized
    THEN /\ sendMessage(receivedPing, receivedPong,
                        createErrorMessage(nextMsgId, "Already initialized"))
         /\ nextMsgId' = nextMsgId + 1
         /\ StayRunning
         /\ UNCHANGED <<config, currentAuthToken, rpcClient, initStep, rpcClientsCreated,
                        receivedPing, receivedPong, pendingProjectResults, gpAv,
                        sfConnects, getProjectsMessage>>
    ELSE /\ currentAuthToken' = <<message.init[1].authToken>>
         /\ config' = <<[httpBaseUrl |-> message.init[1].httpBaseUrl,
                         wssBaseUrl |-> message.init[1].wssBaseUrl,
                         papiPort |-> message.init[1].papiPort]>>
         /\ IF message.init[1].papiPort = 0
              THEN /\ exitProcess(102)
                   /\ UNCHANGED <<rpcClient, initStep, rpcClientsCreated>>
              ELSE /\ rpcClient' = "created"
                   /\ rpcClientsCreated' = rpcClientsCreated + 1
                   /\ initStep' = "rpcConnecting"
                   /\ StayRunning
         /\ NoSend
         /\ UNCHANGED <<nextMsgId, receivedPing, receivedPong, pendingProjectResults,
                        gpAv, sfConnects, getProjectsMessage>>

\* a ping handler that marks the ping and sends no pong
handlePing_noReply(message) ==
  /\ receivedPing' = TRUE
  /\ NoSend
  /\ StayRunning
  /\ UNCHANGED <<nextMsgId, config, receivedPong, rpcClient, currentAuthToken,
                 pendingProjectResults, initStep, getProjectsMessage, gpAv,
                 rpcClientsCreated, sfConnects>>

\* a ping handler that answers every ping with two pongs
handlePing_twoPongs(message) ==
  /\ receivedPing' = TRUE
  /\ w2h' = w2h \o <<createPongMessage(message.id), createPongMessage(message.id)>>
  /\ wSent' = wSent \o <<createPongMessage(message.id), createPongMessage(message.id)>>
  /\ UNCHANGED wDropped
  /\ StayRunning
  /\ UNCHANGED <<nextMsgId, config, receivedPong, rpcClient, currentAuthToken,
                 pendingProjectResults, initStep, getProjectsMessage, gpAv,
                 rpcClientsCreated, sfConnects>>

\* index.ts 171-175
handlePing(message) ==
  /\ receivedPing' = TRUE
  /\ sendMessage(TRUE, receivedPong, createPongMessage(message.id))
  /\ StayRunning
  /\ UNCHANGED <<nextMsgId, config, receivedPong, rpcClient, currentAuthToken,
                 pendingProjectResults, initStep, getProjectsMessage, gpAv,
                 rpcClientsCreated, sfConnects>>

\* a pong handler that answers with a pong of its own
handlePong_replies(message) ==
  /\ receivedPong' = TRUE
  /\ sendMessage(receivedPing, TRUE, createPongMessage(message.id))
  /\ StayRunning
  /\ UNCHANGED <<nextMsgId, config, receivedPing, rpcClient, currentAuthToken,
                 pendingProjectResults, initStep, getProjectsMessage, gpAv,
                 rpcClientsCreated, sfConnects>>

\* index.ts 177-180
handlePong(message) ==
  /\ receivedPong' = TRUE
  /\ NoSend
  /\ StayRunning
  /\ UNCHANGED <<nextMsgId, config, receivedPing, rpcClient, currentAuthToken,
                 pendingProjectResults, initStep, getProjectsMessage, gpAv,
                 rpcClientsCreated, sfConnects>>

\* a handler that calls resolveToValue(message), which leaves a settled value
\* alone and does not throw
handleProjectResults_noThrow(message) ==
  /\ IF pendingProjectResults # 0
       THEN /\ gpAv' = IF gpAv[pendingProjectResults].state = "pending"
                         THEN [gpAv EXCEPT ![pendingProjectResults] =
                                 [state |-> "resolved", value |-> message.projectIds]]
                         ELSE gpAv
            /\ pendingProjectResults' = 0
       ELSE UNCHANGED <<gpAv, pendingProjectResults>>
  /\ StayRunning
  /\ NoSend
  /\ UNCHANGED <<nextMsgId, config, receivedPing, receivedPong, rpcClient,
                 currentAuthToken, initStep, getProjectsMessage, rpcClientsCreated,
                 sfConnects>>

\* index.ts 182-191; resolveToValue(message, true) throws on a settled
\* AsyncVariable and the listener's catch (index.ts 57-59) exits with 101
handleProjectResults(message) ==
  /\ IF pendingProjectResults # 0
       THEN IF gpAv[pendingProjectResults].state = "pending"
              THEN /\ gpAv' = [gpAv EXCEPT ![pendingProjectResults] =
                                 [state |-> "resolved", value |-> message.projectIds]]
                   /\ pendingProjectResults' = 0
                   /\ StayRunning
              ELSE /\ exitProcess(101)
                   /\ UNCHANGED <<gpAv, pendingProjectResults>>
       ELSE /\ StayRunning
            /\ UNCHANGED <<gpAv, pendingProjectResults>>
  /\ NoSend
  /\ UNCHANGED <<nextMsgId, config, receivedPing, receivedPong, rpcClient,
                 currentAuthToken, initStep, getProjectsMessage, rpcClientsCreated,
                 sfConnects>>

\* a shutdown message that is only logged
handleShutdown_ignored(message) ==
  /\ StayRunning
  /\ NoSend
  /\ UNCHANGED <<nextMsgId, config, receivedPing, receivedPong, rpcClient,
                 currentAuthToken, pendingProjectResults, initStep, getProjectsMessage,
                 gpAv, rpcClientsCreated, sfConnects>>

\* index.ts 193-196
handleShutdown(message) ==
  /\ exitProcess(0)
  /\ NoSend
  /\ UNCHANGED <<nextMsgId, config, receivedPing, receivedPong, rpcClient,
                 currentAuthToken, pendingProjectResults, initStep, getProjectsMessage,
                 gpAv, rpcClientsCreated, sfConnects>>

\* a default branch that answers the sender with an error message
handleUnexpected_repliesError(message) ==
  /\ sendMessage(receivedPing, receivedPong,
                 createErrorMessage(nextMsgId, "Unexpected message"))
  /\ nextMsgId' = nextMsgId + 1
  /\ StayRunning
  /\ UNCHANGED <<config, receivedPing, receivedPong, rpcClient,
                 currentAuthToken, pendingProjectResults, initStep, getProjectsMessage,
                 gpAv, rpcClientsCreated, sfConnects>>

\* index.ts 119-120: the default branch only warns
handleUnexpected(message) ==
  /\ NoSend
  /\ StayRunning
  /\ UNCHANGED <<nextMsgId, config, receivedPing, receivedPong, rpcClient,
                 currentAuthToken, pendingProjectResults, initStep, getProjectsMessage,
                 gpAv, rpcClientsCreated, sfConnects>>

\* index.ts 100-122
handleMessage(message) ==
  CASE message.type = "initialize" -> handleInitialize(message)
    [] message.type = "ping" -> handlePing(message)
    [] message.type = "pong" -> handlePong(message)
    [] message.type = "projectResults" -> handleProjectResults(message)
    [] message.type = "shutdown" -> handleShutdown(message)
    [] OTHER -> handleUnexpected(message)

\* index.ts 54-60: the 'message' listener, one queued message at a time
WorkerReceive ==
  /\ UNCHANGED NotWorker
  /\ wpc = "running"
  /\ h2w # <<>>
  /\ h2w' = Tail(h2w)
  /\ wRecvCount' = [wRecvCount EXCEPT ![Head(h2w).type] = @ + 1]
  /\ handleMessage(Head(h2w))
  /\ UNCHANGED <<initLog, forked, gpCalls, peerSent>>


\* index.ts 142-157: rpcClient.connect() settles; on success the second try
\* block runs up to its await of ScriptureForgeBackEndConnection.connect
InitRpcConnected(ok) ==
  /\ UNCHANGED NotWorker
  /\ wpc = "running"
  /\ initStep = "rpcConnecting"
  /\ IF ~ok
       THEN exitProcess(102) /\ UNCHANGED <<initStep, sfConnects, initLog>>
       ELSE /\ initLog' = Append(initLog, "papiConnected")
            /\ IF config[1].wssBaseUrl = "" \/ currentAuthToken[1] = ""
                 THEN SfConnectFailed /\ UNCHANGED <<initStep, sfConnects>>
                 ELSE /\ sfConnects' = sfConnects + 1
                      /\ initStep' = "sfConnecting"
                      /\ StayRunning
  /\ NoSend
  /\ UNCHANGED <<forked, nextMsgId, config, receivedPing, receivedPong, rpcClient,
                 currentAuthToken, pendingProjectResults, getProjectsMessage, gpAv,
                 wRecvCount, gpCalls, rpcClientsCreated, h2w, peerSent>>

\* an async block that goes on to register the factory when the back-end
\* connect has failed
InitSfConnected_registersOnFailure(ok) ==
  /\ UNCHANGED NotWorker
  /\ wpc = "running"
  /\ initStep = "sfConnecting"
  /\ getProjectsMessage' = TRUE
  /\ initStep' = "registering"
  /\ initLog' = IF ok THEN initLog \o <<"sfConnected", "registerCalled">>
                      ELSE Append(initLog, "registerCalled")
  /\ StayRunning
  /\ NoSend
  /\ UNCHANGED <<forked, nextMsgId, config, receivedPing, receivedPong, rpcClient,
                 currentAuthToken, pendingProjectResults, gpAv, wRecvCount, gpCalls,
                 rpcClientsCreated, sfConnects, h2w, peerSent>>

\* index.ts 151-164: the back-end connect settles; on success the third try
\* block sets the factory's rpc client and getProjects retriever and awaits
\* registerNetworkObject
InitSfConnected(ok) ==
  /\ UNCHANGED NotWorker
  /\ wpc = "running"
  /\ initStep = "sfConnecting"
  /\ IF ~ok
       THEN SfConnectFailed /\ UNCHANGED <<initStep, getProjectsMessage, initLog>>
       ELSE /\ getProjectsMessage' = TRUE
            /\ initStep' = "registering"
            /\ initLog' = initLog \o <<"sfConnected", "registerCalled">>
            /\ StayRunning
  /\ NoSend
  /\ UNCHANGED <<forked, nextMsgId, config, receivedPing, receivedPong, rpcClient,
                 currentAuthToken, pendingProjectResults, gpAv, wRecvCount, gpCalls,
                 rpcClientsCreated, sfConnects, h2w, peerSent>>

\* index.ts 164-167: registerNetworkObject settles
InitRegistered(ok) ==
  /\ UNCHANGED NotWorker
  /\ wpc = "running"
  /\ initStep = "registering"
  /\ IF ~ok
       THEN exitProcess(104) /\ UNCHANGED initStep
       ELSE initStep' = "registered" /\ StayRunning
  /\ NoSend
  /\ UNCHANGED <<initLog, forked, nextMsgId, config, receivedPing, receivedPong, rpcClient,
                 currentAuthToken, pendingProjectResults, getProjectsMessage, gpAv,
                 wRecvCount, gpCalls, rpcClientsCreated, sfConnects, h2w, peerSent>>

\* getProjects without the early return on a pending value
JoinPending_never == FALSE

\* index.ts 69
JoinPending == pendingProjectResults # 0

\* index.ts 68-73, called through pdp-factory.ts 41 once the retriever is set
getProjects ==
  /\ UNCHANGED NotWorker
  /\ wpc = "running"
  /\ getProjectsMessage
  /\ Len(gpCalls) < MaxGetProjectsCalls
  /\ IF JoinPending
       THEN /\ gpCalls' = Append(gpCalls, [promise |-> pendingProjectResults,
                                           pendingBefore |-> pendingProjectResults,
                                           sentBefore |-> CountType(wSent, "getProjects"),
                                           sentAfter |-> CountType(wSent, "getProjects")])
            /\ NoSend
            /\ UNCHANGED <<pendingProjectResults, gpAv, nextMsgId>>
       ELSE /\ gpAv' = Append(gpAv, [state |-> "pending", value |-> <<>>])
            /\ pendingProjectResults' = Len(gpAv) + 1
            /\ sendMessage(receivedPing, receivedPong, createGetProjectsMessage(nextMsgId))
            /\ nextMsgId' = nextMsgId + 1
            /\ gpCalls' = Append(gpCalls, [promise |-> Len(gpAv) + 1,
                                           pendingBefore |-> pendingProjectResults,
                                           sentBefore |-> CountType(wSent, "getProjects"),
                                           sentAfter |-> CountType(wSent', "getProjects")])
  /\ StayRunning
  /\ UNCHANGED <<initLog, forked, config, receivedPing, receivedPong, rpcClient, currentAuthToken,
                 initStep, getProjectsMessage, wRecvCount, rpcClientsCreated, sfConnects,
                 h2w, peerSent>>

\* AsyncVariable('SF PDP getProjects') (index.ts 70) is created without a
\* timeout argument, so the library's default deadline applies: a value still
\* pending at the deadline rejects; pendingProjectResults keeps pointing at it
GetProjectsTimeout ==
  /\ UNCHANGED NotWorker
  /\ wpc = "running"
  /\ \E i \in 1..Len(gpAv) :
       /\ gpAv[i].state = "pending"
       /\ gpAv' = [gpAv EXCEPT ![i].state = "rejected"]
  /\ NoSend
  /\ StayRunning
  /\ UNCHANGED <<initLog, forked, nextMsgId, config, receivedPing, receivedPong, rpcClient,
                 currentAuthToken, pendingProjectResults, initStep, getProjectsMessage,
                 wRecvCount, gpCalls, rpcClientsCreated, sfConnects, h2w, peerSent>>

(* -------------------- an arbitrary peer on the channel ------------------ *)
\* initialize payloads a peer may send: two complete ones and one per
\* missing part (index.ts 139, 149, 150)
InitPayloads ==
  { <<"tokA", "https://sf", "wss://sf", WEBSOCKET_PORT>>,
    <<"tokB", "https://sf2", "wss://sf2", WEBSOCKET_PORT>>,
    <<"", "https://sf", "wss://sf", WEBSOCKET_PORT>>,
    <<"tokA", "https://sf", "", WEBSOCKET_PORT>>,
    <<"tokA", "https://sf", "wss://sf", 0>> }

PeerMessages(id) ==
  { SfPdpIpcMessage(t, id) : t \in {"ping", "pong", "getProjects", "error",
                                      "authToken", UnknownType} }
  \cup { createProjectResultsMessage(id, <<"p1">>), createShutdownMessage(id, "bye") }
  \cup { createInitializeMessage(id, p[1], p[2], p[3], p[4]) : p \in InitPayloads }

\* The parent end of the worker's channel sends any message
PeerSendToWorker ==
  /\ UNCHANGED NotWorker
  /\ peerSent < MaxPeerMsgs
  /\ \E m \in PeerMessages(peerSent + 1) : h2w' = Append(h2w, m)
  /\ peerSent' = peerSent + 1
  /\ UNCHANGED <<workerVars, w2h>>

(* ------------------------------- SpecWorker ----------------------------- *)
MessageTypes == SfPdpIpcMessageTypes \cup {UnknownType}

InitWorker ==
  /\ forked \in BOOLEAN
  /\ wpc = "unstarted"
  /\ exitCode = <<>>
  /\ nextMsgId = 0
  /\ config = <<>>
  /\ receivedPing = FALSE
  /\ receivedPong = FALSE
  /\ rpcClient = "none"
  /\ currentAuthToken = <<>>
  /\ pendingProjectResults = 0
  /\ initStep = "none"
  /\ getProjectsMessage = FALSE
  /\ gpAv = <<>>
  /\ wRecvCount = [t \in MessageTypes |-> 0]
  /\ wDropped = <<>>
  /\ gpCalls = <<>>
  /\ rpcClientsCreated = 0
  /\ sfConnects = 0
  /\ wSent = <<>>
  /\ initLog = <<>>

InitChan == h2w = <<>> /\ w2h = <<>> /\ peerSent = 0


NextWorker ==
  \/ WorkerStart
  \/ WorkerSignal
  \/ WorkerReceive
  \/ \E ok \in BOOLEAN : InitRpcConnected(ok)
  \/ \E ok \in BOOLEAN : InitSfConnected(ok)
  \/ \E ok \in BOOLEAN : InitRegistered(ok)
  \/ getProjects
  \/ GetProjectsTimeout
  \/ PeerSendToWorker

(* ================= host: child-process-handler.ts ====================== *)
\* child-process-handler.ts 55-58
getNextMessageId == hNextMessageId + 1

\* a channel that hands the newest message to the worker first
HostSend_atFront(message) ==
  /\ h2w' = <<message>> \o h2w
  /\ hSent' = Append(hSent, message)

\* child-process-handler.ts 52, 67, 87, 107: childProcess.send
HostSend(message) ==
  /\ h2w' = Append(h2w, message)
  /\ hSent' = Append(hSent, message)

\* child-process-handler.ts 30-53
initializeChildProcess ==
  /\ UNCHANGED NotHost
  /\ ~childProcess
  /\ childProcess' = TRUE
  /\ HostSend(createPingMessage(getNextMessageId))
  /\ hNextMessageId' = getNextMessageId
  /\ UNCHANGED <<hFetching, hInitializing, hRecvCount, hRemoteCalls, w2h, peerSent>>

\* A handler that takes a ping, too, as the cue to send initialize
HostStartsInitialize_onPing(message) == message.type \in {"ping", "pong"}

\* child-process-handler.ts 70-72
HostStartsInitialize(message) == message.type = "pong"

\* child-process-handler.ts 60-76 with the synchronous start of
\* sendProjectResultsMessage (78-80) and sendInitializeMessage (90-96)
HostReceive ==
  /\ UNCHANGED NotHost
  /\ childProcess
  /\ w2h # <<>>
  /\ w2h' = Tail(w2h)
  /\ hRecvCount' = [hRecvCount EXCEPT ![Head(w2h).type] = @ + 1]
  /\ LET message == Head(w2h) IN
       /\ IF message.type = "getProjects"
            THEN hFetching' = hFetching + 1 /\ hRemoteCalls' = hRemoteCalls + 1
            ELSE UNCHANGED <<hFetching, hRemoteCalls>>
       /\ IF message.type = "ping"
            THEN /\ HostSend(createPongMessage(getNextMessageId))
                 /\ hNextMessageId' = getNextMessageId
            ELSE UNCHANGED <<h2w, hSent, hNextMessageId>>
       /\ IF HostStartsInitialize(message)
            THEN hInitializing' = hInitializing + 1
            ELSE UNCHANGED hInitializing
  /\ UNCHANGED <<childProcess, peerSent>>

\* What sfApi.getProjects() does (scripture-forge-api.model.ts 61-70): it
\* answers undefined when the response is not ok, else the project infos, each
\* with its projectId ("" for a null projectId); it throws when
\* fetchWithAuthorization throws (no tokens, a failed fetch, a failed refresh)
ApiResults ==
  { [threw |-> TRUE, ok |-> FALSE, projects |-> <<>>],
    [threw |-> FALSE, ok |-> FALSE, projects |-> <<>>],
    [threw |-> FALSE, ok |-> TRUE, projects |-> <<"p1">>],
    [threw |-> FALSE, ok |-> TRUE, projects |-> <<"p1", "", "p2">>] }

\* child-process-handler.ts 82-86
ProjectIdsOf(result) ==
  IF result.ok THEN SelectSeq(result.projects, LAMBDA id : id # "") ELSE <<>>

\* child-process-handler.ts 78-88: one pending sfApi.getProjects() settles; a
\* rejection leaves sendProjectResultsMessage at line 80 and, handleMessage
\* being called without a catch (line 50), nothing is sent
HostFetchDone(result) ==
  /\ UNCHANGED NotHost
  /\ hFetching > 0
  /\ hFetching' = hFetching - 1
  /\ IF result.threw
       THEN UNCHANGED <<h2w, hSent, hNextMessageId>>
       ELSE /\ HostSend(createProjectResultsMessage(getNextMessageId,
                                                    ProjectIdsOf(result)))
            /\ hNextMessageId' = getNextMessageId
  /\ UNCHANGED <<childProcess, hInitializing, hRecvCount, hRemoteCalls, w2h, peerSent>>

\* child-process-handler.ts 95-115: one sendInitializeMessage() run finishes;
\* without a login or a token it throws and nothing is sent
HostInitializeDone(authToken) ==
  /\ UNCHANGED NotHost
  /\ hInitializing > 0
  /\ hInitializing' = hInitializing - 1
  /\ IF authToken = ""
       THEN UNCHANGED <<h2w, hSent, hNextMessageId>>
       ELSE /\ HostSend(createInitializeMessage(getNextMessageId, authToken,
                          "https://sf", "wss://sf", WEBSOCKET_PORT))
            /\ hNextMessageId' = getNextMessageId
  /\ UNCHANGED <<childProcess, hFetching, hRecvCount, hRemoteCalls, w2h, peerSent>>

\* The worker end of the host's channel sends any message
PeerSendToHost ==
  /\ UNCHANGED NotHost
  /\ peerSent < MaxPeerMsgs
  /\ \E m \in PeerMessages(peerSent + 1) : w2h' = Append(w2h, m)
  /\ peerSent' = peerSent + 1
  /\ UNCHANGED <<hostVars, h2w>>

InitHost ==
  /\ childProcess = FALSE
  /\ hNextMessageId = 0
  /\ hFetching = 0
  /\ hInitializing = 0
  /\ hRecvCount = [t \in MessageTypes |-> 0]
  /\ hRemoteCalls = 0
  /\ hSent = <<>>

NextHost ==
  \/ initializeChildProcess
  \/ HostReceive
  \/ \E result \in ApiResults : HostFetchDone(result)
  \/ \E authToken \in {"", "tokA"} : HostInitializeDone(authToken)
  \/ PeerSendToHost


(* ====== connection manager: scripture-forge-back-end-connection.ts ====== *)
Tasks == 1..NumTasks
Projects == {"p1"}

\* The serialized verse references callers ask for
Refs == { [book |-> "GEN", chapterNum |-> 1], [book |-> "GEN", chapterNum |-> 2] }

\* rce-utils.ts createTextId
createTextId(projectId, ref) == <<projectId, ref.book, ref.chapterNum, "target">>
TextIds == { createTextId(p, r) : p \in Projects, r \in Refs }

\* Canon.bookNumberToId for the books in the project data
bookNumberToId(bookNum) == IF bookNum = 1 THEN "GEN" ELSE "EXO"

\* project.data.texts of the project document: Genesis with a valid chapter 1
\* and an invalid chapter 2
ProjectTexts(projectId) ==
  { [bookNum |-> 1, chapters |-> { [number |-> 1, isValid |-> TRUE],
                                   [number |-> 2, isValid |-> FALSE] }] }

\* a lookup that accepts a chapter whether or not it is marked valid
VerseRefFound_anyChapter(projectId, ref) ==
  \E textInfo \in ProjectTexts(projectId) :
    /\ bookNumberToId(textInfo.bookNum) = ref.book
    /\ \E chapter \in textInfo.chapters : chapter.number = ref.chapterNum

\* scripture-forge-back-end-connection.ts 179-188 (get-projects-message.ts)
VerseRefFound(projectId, ref) ==
  \E textInfo \in ProjectTexts(projectId) :
    /\ bookNumberToId(textInfo.bookNum) = ref.book
    /\ \E chapter \in textInfo.chapters :
         chapter.number = ref.chapterNum /\ chapter.isValid

IdleTask ==
  [op |-> "none", pc |-> "idle", project |-> "", ref |-> <<>>, av |-> 0, conn |-> 0,
   sub |-> "none", closed |-> "none", doc |-> <<>>, result |-> "none", ret |-> <<>>,
   session |-> 0, timerDue |-> FALSE, why |-> ""]

Free(t) == tasks[t].pc \in {"idle", "done"}

\* A caller starts a call on the lowest free slot
CanStart(t) ==
  /\ Free(t)
  /\ \A u \in Tasks : u < t => ~Free(u)
  /\ opsStarted < MaxOps

\* get-projects-message.ts 38: SF_TIMEOUT_MS
SfTimeoutMs == 60000

\* a connection value whose deadline lies beyond any wait
NewConnectionValue_laterDeadline ==
  [state |-> "pending", value |-> 0, deadline |-> 2 * SfTimeoutMs, due |-> FALSE,
   why |-> ""]

\* new AsyncVariable<Connection>('SF PDP connect', SF_TIMEOUT_MS): pending, its
\* deadline not yet passed; due is cleared again when the value settles
\* otherwise than by its timer
NewConnectionValue ==
  [state |-> "pending", value |-> 0, deadline |-> SfTimeoutMs, due |-> FALSE,
   why |-> ""]

\* The task awaits a value of its own (subscription or socket close) that is
\* still pending
OwnTimerRunning(t) ==
  \/ tasks[t].pc \in {"projAwaitSub", "chapAwaitSub"} /\ tasks[t].sub = "pending"
  \/ tasks[t].pc \in {"awaitSettled", "awaitClosed"} /\ tasks[t].closed = "pending"

\* ms milliseconds pass: the deadline of every pending value created with a
\* deadline of at most ms has now passed
Elapse(ms) ==
  /\ UNCHANGED NotConn
  /\ \/ \E i \in 1..Len(connAvs) : connAvs[i].state = "pending" /\ ~connAvs[i].due
     \/ \E t \in Tasks : OwnTimerRunning(t) /\ ~tasks[t].timerDue
  /\ connAvs' = [i \in 1..Len(connAvs) |->
                   IF connAvs[i].state = "pending" /\ connAvs[i].deadline <= ms
                     THEN [connAvs[i] EXCEPT !.due = TRUE]
                     ELSE connAvs[i]]
  /\ tasks' = [t \in Tasks |->
                 IF OwnTimerRunning(t) /\ SfTimeoutMs <= ms
                   THEN [tasks[t] EXCEPT !.timerDue = TRUE]
                   ELSE tasks[t]]
  /\ UNCHANGED <<connectionAsyncVariable, socket, sockets, projectDocuments,
                 chapterDeltas, opsStarted, epoch, session, transportsInSession>>

\* The call returns or throws; what it awaited on the way is dropped
Done(t, result, ret) ==
  tasks' = [tasks EXCEPT ![t].pc = "done", ![t].result = result, ![t].ret = ret,
                         ![t].conn = 0, ![t].sub = "none", ![t].closed = "none",
                         ![t].doc = <<>>, ![t].timerDue = FALSE, ![t].why = ""]

\* connect() that opens a new transport unless a connection is already open
JoinsConnection_onlyWhenOpen ==
  /\ connectionAsyncVariable # 0
  /\ connAvs[connectionAsyncVariable].state = "resolved"

\* get-projects-message.ts 53
JoinsConnection == connectionAsyncVariable # 0

\* get-projects-message.ts 52-106: connect() up to its await
ConnectCall(t) ==
  /\ UNCHANGED NotConn
  /\ CanStart(t)
  /\ opsStarted' = opsStarted + 1
  /\ IF JoinsConnection
       THEN /\ tasks' = [tasks EXCEPT ![t] = [IdleTask EXCEPT !.op = "connect",
                           !.pc = "awaitConn", !.av = connectionAsyncVariable,
                           !.session = session]]
            /\ UNCHANGED <<connectionAsyncVariable, socket, connAvs, sockets,
                           transportsInSession>>
       ELSE /\ connAvs' = Append(connAvs, NewConnectionValue)
            /\ connectionAsyncVariable' = Len(connAvs) + 1
            /\ sockets' = Append(sockets, [state |-> "connecting", hooks |-> {}])
            /\ socket' = Len(sockets) + 1
            /\ transportsInSession' = transportsInSession + 1
            /\ tasks' = [tasks EXCEPT ![t] = [IdleTask EXCEPT !.op = "connect",
                           !.pc = "awaitConn", !.av = Len(connAvs) + 1,
                           !.session = session]]
  /\ UNCHANGED <<projectDocuments, chapterDeltas, epoch, session>>

\* get-projects-message.ts 54 / 106: the awaited connection value has settled
ConnectReturn(t) ==
  /\ UNCHANGED NotConn
  /\ tasks[t].op = "connect" /\ tasks[t].pc = "awaitConn"
  /\ connAvs[tasks[t].av].state # "pending"
  /\ Done(t, IF connAvs[tasks[t].av].state = "resolved" THEN "ok" ELSE "rejected", <<>>)
  /\ UNCHANGED <<connectionAsyncVariable, socket, connAvs, sockets, projectDocuments,
                 chapterDeltas, opsStarted, epoch, session, transportsInSession>>

\* get-projects-message.ts 71-77: onopen of a transport; the handler reads the
\* module's socket and connectionAsyncVariable
SocketOpen(s) ==
  /\ UNCHANGED NotConn
  /\ sockets[s].state = "connecting"
  /\ sockets' = [sockets EXCEPT ![s].state = "open"]
  /\ IF socket # 0 /\ connectionAsyncVariable # 0
        /\ connAvs[connectionAsyncVariable].state = "pending"
       THEN connAvs' = [connAvs EXCEPT ![connectionAsyncVariable].state = "resolved",
                                       ![connectionAsyncVariable].value = socket,
                                       ![connectionAsyncVariable].due = FALSE]
       ELSE UNCHANGED connAvs
  /\ UNCHANGED <<connectionAsyncVariable, socket, projectDocuments, chapterDeltas, tasks,
                 opsStarted, epoch, session, transportsInSession>>

\* an onerror handler that drops a settled connection
SocketError_dropsConnection(s) ==
  /\ UNCHANGED NotConn
  /\ sockets[s].state \in {"connecting", "open", "closing"}
  /\ sockets' = [sockets EXCEPT ![s].state =
                   IF sockets[s].state = "closing" THEN "closing" ELSE "connecting"]
  /\ IF connectionAsyncVariable # 0 /\ connAvs[connectionAsyncVariable].state = "pending"
       THEN /\ connAvs' = [connAvs EXCEPT ![connectionAsyncVariable].state = "rejected",
                                          ![connectionAsyncVariable].why = "error",
                                          ![connectionAsyncVariable].due = FALSE]
            /\ UNCHANGED <<connectionAsyncVariable, socket>>
       ELSE /\ connectionAsyncVariable' = 0
            /\ socket' = 0
            /\ UNCHANGED connAvs
  /\ UNCHANGED <<projectDocuments, chapterDeltas, tasks, opsStarted, epoch, session,
                 transportsInSession>>

\* get-projects-message.ts 89-95: onerror of a transport; the transport
\* reconnects unless it is being closed
SocketError(s) ==
  /\ UNCHANGED NotConn
  /\ sockets[s].state \in {"connecting", "open", "closing"}
  /\ sockets' = [sockets EXCEPT ![s].state =
                   IF sockets[s].state = "closing" THEN "closing" ELSE "connecting"]
  /\ IF connectionAsyncVariable # 0 /\ connAvs[connectionAsyncVariable].state = "pending"
       THEN connAvs' = [connAvs EXCEPT ![connectionAsyncVariable].state = "rejected",
                                       ![connectionAsyncVariable].why = "error",
                                       ![connectionAsyncVariable].due = FALSE]
       ELSE UNCHANGED connAvs
  /\ UNCHANGED <<connectionAsyncVariable, socket, projectDocuments, chapterDeltas, tasks,
                 opsStarted, epoch, session, transportsInSession>>

\* An AsyncVariable's timer fires once its deadline has passed
TimerFires(due) == due

\* AsyncVariable('SF PDP connect', SF_TIMEOUT_MS) (line 60): the timer rejects
\* a value that is still pending
ConnectTimeout ==
  /\ UNCHANGED NotConn
  /\ \E i \in 1..Len(connAvs) :
       /\ connAvs[i].state = "pending"
       /\ TimerFires(connAvs[i].due)
       /\ connAvs' = [connAvs EXCEPT ![i].state = "rejected", ![i].why = "timeout"]
  /\ UNCHANGED <<connectionAsyncVariable, socket, sockets, projectDocuments, chapterDeltas,
                 tasks, opsStarted, epoch, session, transportsInSession>>

\* a close() that leaves the transport as it is
CloseOf_leftOpen(socks, s) == socks

\* socket.close() / connection.close() on a transport
CloseOf(socks, s) ==
  IF s # 0 /\ socks[s].state # "closed"
    THEN [socks EXCEPT ![s].state = "closing"]
    ELSE socks

\* a teardown that keeps the module's connection value
DisconnectTeardown_keepsValue(t, socks) ==
  /\ connectionAsyncVariable' = connectionAsyncVariable
  /\ sockets' = CloseOf(socks, socket)
  /\ socket' = 0
  /\ session' = session + 1
  /\ transportsInSession' = 0

\* get-projects-message.ts 133-139: clear the variable, close and drop the
\* socket, then await the close
DisconnectTeardown(t, socks) ==
  /\ connectionAsyncVariable' = 0
  /\ sockets' = CloseOf(socks, socket)
  /\ socket' = 0
  /\ session' = session + 1
  /\ transportsInSession' = 0

\* get-projects-message.ts 109-139: disconnect() up to its first await
DisconnectCall(t) ==
  /\ UNCHANGED NotConn
  /\ CanStart(t)
  /\ opsStarted' = opsStarted + 1
  /\ LET hooked == IF socket # 0
                     THEN [sockets EXCEPT ![socket].hooks = @ \cup {t}]
                     ELSE sockets
         closed == IF socket # 0 THEN "pending" ELSE "resolved"
         me == [IdleTask EXCEPT !.op = "disconnect", !.closed = closed,
                                !.av = connectionAsyncVariable]
     IN IF connectionAsyncVariable # 0
           /\ connAvs[connectionAsyncVariable].state # "pending"
          THEN \* line 126: await the settled value before going on
               /\ tasks' = [tasks EXCEPT ![t] = [me EXCEPT !.pc = "awaitSettled"]]
               /\ sockets' = hooked
               /\ session' = session + 1
               /\ transportsInSession' = 0
               /\ UNCHANGED <<connectionAsyncVariable, socket, connAvs>>
          ELSE /\ connAvs' = IF connectionAsyncVariable # 0
                               THEN [connAvs EXCEPT
                                       ![connectionAsyncVariable].state = "rejected",
                                       ![connectionAsyncVariable].why = "Disconnecting",
                                       ![connectionAsyncVariable].due = FALSE]
                               ELSE connAvs
               /\ DisconnectTeardown(t, hooked)
               /\ tasks' = [tasks EXCEPT ![t] = [me EXCEPT !.pc = "awaitClosed"]]
  /\ UNCHANGED <<projectDocuments, chapterDeltas, epoch>>

\* get-projects-message.ts 126-139: the awaited value is delivered; close the
\* connection it holds, then tear down whatever the module variables hold now
DisconnectResume(t) ==
  /\ UNCHANGED NotConn
  /\ tasks[t].op = "disconnect" /\ tasks[t].pc = "awaitSettled"
  /\ LET av == connAvs[tasks[t].av]
         afterConnClose == IF av.state = "resolved"
                             THEN CloseOf(sockets, av.value)
                             ELSE sockets
     IN DisconnectTeardown(t, afterConnClose)
  /\ tasks' = [tasks EXCEPT ![t].pc = "awaitClosed"]
  /\ UNCHANGED <<connAvs, projectDocuments, chapterDeltas, opsStarted, epoch>>

\* The close event of a transport that was asked to close; the onclose
\* wrappers installed by disconnect() (112-116) resolve their values
SocketClosed(s) ==
  /\ UNCHANGED NotConn
  /\ sockets[s].state = "closing"
  /\ sockets' = [sockets EXCEPT ![s].state = "closed"]
  /\ tasks' = [t \in Tasks |->
                 IF t \in sockets[s].hooks /\ tasks[t].op = "disconnect"
                    /\ tasks[t].closed = "pending"
                   THEN [tasks[t] EXCEPT !.closed = "resolved", !.timerDue = FALSE]
                   ELSE tasks[t]]
  /\ UNCHANGED <<connectionAsyncVariable, socket, connAvs, projectDocuments,
                 chapterDeltas, opsStarted, epoch, session, transportsInSession>>

\* AsyncVariable('SF PDP disconnect', SF_TIMEOUT_MS): the deadline passes
DisconnectTimeout(t) ==
  /\ UNCHANGED NotConn
  /\ tasks[t].op = "disconnect" /\ tasks[t].closed = "pending"
  /\ tasks[t].pc \in {"awaitSettled", "awaitClosed"}
  /\ TimerFires(tasks[t].timerDue)
  /\ tasks' = [tasks EXCEPT ![t].closed = "rejected", ![t].why = "timeout"]
  /\ UNCHANGED <<connectionAsyncVariable, socket, connAvs, sockets, projectDocuments,
                 chapterDeltas, opsStarted, epoch, session, transportsInSession>>

\* get-projects-message.ts 139-142: the close has been awaited
DisconnectFinish(t) ==
  /\ UNCHANGED NotConn
  /\ tasks[t].op = "disconnect" /\ tasks[t].pc = "awaitClosed"
  /\ tasks[t].closed # "pending"
  /\ IF tasks[t].closed = "resolved"
       THEN \* line 141: projectDocuments.clear() and nothing else
            /\ projectDocuments' = [p \in Projects |-> <<>>]
            /\ epoch' = epoch + 1
            /\ Done(t, "ok", <<>>)
       ELSE /\ Done(t, "rejected", <<>>)
            /\ UNCHANGED <<projectDocuments, epoch>>
  /\ UNCHANGED chapterDeltas
  /\ UNCHANGED <<connectionAsyncVariable, socket, connAvs, sockets, opsStarted, session,
                 transportsInSession>>

\* connection.get(collection, id): the document of that id on that connection
ShareDbDoc(conn, key) == [conn |-> conn, key |-> key]

\* What a cache holds for a key: the document and, for the record, the epoch
\* in which it was stored
CacheEntry(doc) == [doc |-> doc, epoch |-> epoch]

\* get-projects-message.ts 152-162 / 191-201: the connection value arrived;
\* get the document, subscribe, fetch and await the subscription
StartSubscribe(t, key, nextPc) ==
  IF connAvs[tasks[t].av].state = "rejected"
    THEN Done(t, "rejected", <<>>)
    ELSE tasks' = [tasks EXCEPT ![t].pc = nextPc,
                                ![t].conn = connAvs[tasks[t].av].value,
                                ![t].sub = "pending",
                                ![t].timerDue = FALSE,
                                ![t].doc = <<ShareDbDoc(connAvs[tasks[t].av].value, key)>>]

\* a lookup that never finds the cached project document
ProjectCacheHit_never(projectId) == FALSE

\* get-projects-message.ts 147-148
ProjectCacheHit(projectId) == projectDocuments[projectId] # <<>>

\* get-projects-message.ts 144-152: getProjectDoc() up to its first await
GetProjectDocCall(t, projectId) ==
  /\ UNCHANGED NotConn
  /\ CanStart(t)
  /\ opsStarted' = opsStarted + 1
  /\ LET me == [IdleTask EXCEPT !.op = "getProjectDoc", !.project = projectId,
                                !.session = session]
     IN IF ProjectCacheHit(projectId)
          THEN tasks' = [tasks EXCEPT ![t] = [me EXCEPT !.pc = "done", !.result = "ok",
                                               !.ret = <<projectDocuments[projectId][1].doc>>]]
          ELSE IF connectionAsyncVariable = 0
                 THEN tasks' = [tasks EXCEPT ![t] = [me EXCEPT !.pc = "done",
                                                     !.result = "precondition"]]
                 ELSE tasks' = [tasks EXCEPT ![t] = [me EXCEPT !.pc = "projAwaitConn",
                                                     !.av = connectionAsyncVariable]]
  /\ UNCHANGED <<connectionAsyncVariable, socket, connAvs, sockets, projectDocuments,
                 chapterDeltas, epoch, session, transportsInSession>>

\* get-projects-message.ts 152-163, also when entered from getChapterDoc (178)
ProjectConnected(t) ==
  /\ UNCHANGED NotConn
  /\ tasks[t].pc = "projAwaitConn"
  /\ connAvs[tasks[t].av].state # "pending"
  /\ StartSubscribe(t, tasks[t].project, "projAwaitSub")
  /\ UNCHANGED <<connectionAsyncVariable, socket, connAvs, sockets, projectDocuments,
                 chapterDeltas, opsStarted, epoch, session, transportsInSession>>

\* get-projects-message.ts 155-161 / 194-200: the subscribe callback runs; the
\* server confirms a subscription only over an open transport
SubscribeCallback(t, error) ==
  /\ UNCHANGED NotConn
  /\ tasks[t].pc \in {"projAwaitSub", "chapAwaitSub"}
  /\ tasks[t].sub = "pending"
  /\ ~error => sockets[tasks[t].conn].state = "open"
  /\ tasks' = [tasks EXCEPT ![t].sub = IF error THEN "rejected" ELSE "resolved",
                            ![t].why = IF error THEN "error" ELSE "",
                            ![t].timerDue = FALSE]
  /\ UNCHANGED <<connectionAsyncVariable, socket, connAvs, sockets, projectDocuments,
                 chapterDeltas, opsStarted, epoch, session, transportsInSession>>

\* AsyncVariable(`SF PDP project ...` / `SF PDP text ...`, SF_TIMEOUT_MS): the
\* deadline passes
SubscribeTimeout(t) ==
  /\ UNCHANGED NotConn
  /\ tasks[t].pc \in {"projAwaitSub", "chapAwaitSub"}
  /\ tasks[t].sub = "pending"
  /\ TimerFires(tasks[t].timerDue)
  /\ tasks' = [tasks EXCEPT ![t].sub = "rejected", ![t].why = "timeout"]
  /\ UNCHANGED <<connectionAsyncVariable, socket, connAvs, sockets, projectDocuments,
                 chapterDeltas, opsStarted, epoch, session, transportsInSession>>

\* get-projects-message.ts 163-165; inside getChapterDoc the document goes on
\* to line 178
ProjectSubscribed(t) ==
  /\ UNCHANGED NotConn
  /\ tasks[t].pc = "projAwaitSub"
  /\ tasks[t].sub # "pending"
  /\ IF tasks[t].sub = "rejected"
       THEN Done(t, "rejected", <<>>) /\ UNCHANGED projectDocuments
       ELSE /\ projectDocuments' = [projectDocuments EXCEPT
                                      ![tasks[t].project] = <<CacheEntry(tasks[t].doc[1])>>]
            /\ IF tasks[t].op = "getProjectDoc"
                 THEN Done(t, "ok", tasks[t].doc)
                 ELSE tasks' = [tasks EXCEPT ![t].pc = "haveProject", ![t].sub = "none",
                                             ![t].timerDue = FALSE, ![t].why = ""]
  /\ UNCHANGED <<connectionAsyncVariable, socket, connAvs, sockets, chapterDeltas,
                 opsStarted, epoch, session, transportsInSession>>

\* get-projects-message.ts 168-178: getChapterDoc() up to its first await,
\* which is inside getProjectDoc (147-152)
GetChapterDocCall(t, projectId, ref) ==
  /\ UNCHANGED NotConn
  /\ CanStart(t)
  /\ opsStarted' = opsStarted + 1
  /\ LET textId == createTextId(projectId, ref)
         me == [IdleTask EXCEPT !.op = "getChapterDoc", !.project = projectId,
                                !.ref = <<ref>>, !.session = session]
     IN IF chapterDeltas[textId] # <<>>
          THEN tasks' = [tasks EXCEPT ![t] = [me EXCEPT !.pc = "done", !.result = "ok",
                                               !.ret = <<chapterDeltas[textId][1].doc>>]]
          ELSE IF connectionAsyncVariable = 0
                 THEN tasks' = [tasks EXCEPT ![t] = [me EXCEPT !.pc = "done",
                                                     !.result = "precondition"]]
                 ELSE IF ProjectCacheHit(projectId)
                        THEN tasks' = [tasks EXCEPT ![t] = [me EXCEPT !.pc = "haveProject"]]
                        ELSE tasks' = [tasks EXCEPT ![t] = [me EXCEPT
                                         !.pc = "projAwaitConn",
                                         !.av = connectionAsyncVariable]]
  /\ UNCHANGED <<connectionAsyncVariable, socket, connAvs, sockets, projectDocuments,
                 chapterDeltas, epoch, session, transportsInSession>>

\* get-projects-message.ts 178-191: the project document arrived; look the
\* reference up in its texts, then await the module's connection value
ChapterCheck(t) ==
  /\ UNCHANGED NotConn
  /\ tasks[t].pc = "haveProject"
  /\ IF ~VerseRefFound(tasks[t].project, tasks[t].ref[1])
       THEN Done(t, "notFound", <<>>)
       ELSE IF connectionAsyncVariable = 0
              THEN Done(t, "typeError", <<>>)
              ELSE tasks' = [tasks EXCEPT ![t].pc = "chapAwaitConn",
                                          ![t].av = connectionAsyncVariable]
  /\ UNCHANGED <<connectionAsyncVariable, socket, connAvs, sockets, projectDocuments,
                 chapterDeltas, opsStarted, epoch, session, transportsInSession>>

\* get-projects-message.ts 191-202
ChapterConnected(t) ==
  /\ UNCHANGED NotConn
  /\ tasks[t].pc = "chapAwaitConn"
  /\ connAvs[tasks[t].av].state # "pending"
  /\ StartSubscribe(t, createTextId(tasks[t].project, tasks[t].ref[1]), "chapAwaitSub")
  /\ UNCHANGED <<connectionAsyncVariable, socket, connAvs, sockets, projectDocuments,
                 chapterDeltas, opsStarted, epoch, session, transportsInSession>>

\* a continuation that stores the chapter document whatever the subscription
\* reported
ChapterSubscribed_cachesFailure(t) ==
  /\ UNCHANGED NotConn
  /\ tasks[t].pc = "chapAwaitSub"
  /\ tasks[t].sub # "pending"
  /\ chapterDeltas' = [chapterDeltas EXCEPT
                         ![createTextId(tasks[t].project, tasks[t].ref[1])] =
                           <<CacheEntry(tasks[t].doc[1])>>]
  /\ Done(t, IF tasks[t].sub = "rejected" THEN "rejected" ELSE "ok",
             IF tasks[t].sub = "rejected" THEN <<>> ELSE tasks[t].doc)
  /\ UNCHANGED <<connectionAsyncVariable, socket, connAvs, sockets, projectDocuments,
                 opsStarted, epoch, session, transportsInSession>>

\* get-projects-message.ts 202-204
ChapterSubscribed(t) ==
  /\ UNCHANGED NotConn
  /\ tasks[t].pc = "chapAwaitSub"
  /\ tasks[t].sub # "pending"
  /\ IF tasks[t].sub = "rejected"
       THEN Done(t, "rejected", <<>>) /\ UNCHANGED chapterDeltas
       ELSE /\ chapterDeltas' = [chapterDeltas EXCEPT
                                   ![createTextId(tasks[t].project, tasks[t].ref[1])] =
                                     <<CacheEntry(tasks[t].doc[1])>>]
            /\ Done(t, "ok", tasks[t].doc)
  /\ UNCHANGED <<connectionAsyncVariable, socket, connAvs, sockets, projectDocuments,
                 opsStarted, epoch, session, transportsInSession>>

InitConn ==
  /\ connectionAsyncVariable = 0
  /\ socket = 0
  /\ connAvs = <<>>
  /\ sockets = <<>>
  /\ projectDocuments = [p \in Projects |-> <<>>]
  /\ chapterDeltas = [k \in TextIds |-> <<>>]
  /\ tasks = [t \in Tasks |-> IdleTask]
  /\ opsStarted = 0
  /\ epoch = 0
  /\ session = 0
  /\ transportsInSession = 0

NextConn ==
  \/ \E t \in Tasks : ConnectCall(t)
  \/ \E t \in Tasks : ConnectReturn(t)
  \/ \E s \in 1..Len(sockets) : SocketOpen(s)
  \/ \E s \in 1..Len(sockets) : SocketError(s)
  \/ ConnectTimeout
  \/ \E ms \in {SfTimeoutMs} : Elapse(ms)
  \/ \E t \in Tasks : DisconnectCall(t)
  \/ \E t \in Tasks : DisconnectResume(t)
  \/ \E s \in 1..Len(sockets) : SocketClosed(s)
  \/ \E t \in Tasks : DisconnectTimeout(t)
  \/ \E t \in Tasks : DisconnectFinish(t)
  \/ \E t \in Tasks, p \in Projects : GetProjectDocCall(t, p)
  \/ \E t \in Tasks : ProjectConnected(t)
  \/ \E t \in Tasks, error \in BOOLEAN : SubscribeCallback(t, error)
  \/ \E t \in Tasks : SubscribeTimeout(t)
  \/ \E t \in Tasks : ProjectSubscribed(t)
  \/ \E t \in Tasks, p \in Projects, r \in Refs : GetChapterDocCall(t, p, r)
  \/ \E t \in Tasks : ChapterCheck(t)
  \/ \E t \in Tasks : ChapterConnected(t)
  \/ \E t \in Tasks : ChapterSubscribed(t)

(* --------- directory cache: SlingshotProjectDataProviderEngineFactory ------ *)
\* slingshot-project-data-provider-engine-factory.model.ts 19
GET_PROJECTS_THROTTLE_MS == 5 * 1000

\* scripture-forge-authentication-provider.model.ts, imported at line 13
NOT_LOGGED_IN_ERROR_MESSAGE == "Not logged in"

\* slingshot-project-data-provider-engine-factory.model.ts 30-32
getSlingshotAppProjectId(projectId) == <<projectId, "-slingshot-draft">>

Callers == 1..NumCallers

\* What scriptureForgeApi.getProjects() can answer: a list of projects, a
\* status number, undefined (scripture-forge-api.model.ts 65), or a throw
ApiAnswer(kind, paratextIds, status, message) ==
  [kind |-> kind, paratextIds |-> paratextIds, status |-> status, message |-> message]

DirectoryAnswers ==
  { ApiAnswer("projects", <<"pt1">>, 200, ""),
    ApiAnswer("projects", <<>>, 200, ""),
    ApiAnswer("status", <<>>, 204, ""),
    ApiAnswer("status", <<>>, 500, ""),
    ApiAnswer("undefined", <<>>, 0, ""),
    ApiAnswer("throw", <<>>, 0, NOT_LOGGED_IN_ERROR_MESSAGE),
    ApiAnswer("throw", <<>>, 0, "Failed to fetch") }

\* An array value: its identity and its elements
NewArray(ref, items) == [ref |-> ref, items |-> items]

IdleCaller ==
  [pc |-> "idle", force |-> FALSE, before |-> <<>>, fetched |-> "none",
   outcome |-> "none", result |-> <<>>]

\* The callback of the mutex's next holder is due to run before anything else
MicrotaskPending ==
  /\ getProjectsMutex # <<>>
  /\ callers[Head(getProjectsMutex)].pc = "queued"

Resolve(c, me, value) ==
  callers' = [callers EXCEPT ![c] = [me EXCEPT !.pc = "done", !.outcome = "resolved",
                                               !.result = <<value>>]]

\* slingshot-project-data-provider-engine-factory.model.ts 91-103:
\* #getAvailableProjects(force) up to runExclusive
getAvailableProjects(c, force) ==
  /\ UNCHANGED NotDir
  /\ ~MicrotaskPending
  /\ callers[c].pc = "idle"
  /\ \A d \in Callers : d < c => callers[d].pc # "idle"
  /\ force => pdpeByAppProjectId # {}
  /\ LET time == IF force THEN 0 ELSE lastGetProjectsTime
         me == [IdleCaller EXCEPT !.force = force]
     IN /\ lastGetProjectsTime' = time
        /\ IF ~force /\ isLoggedOut
             THEN /\ Resolve(c, me, NewArray(nextRef, <<>>))
                  /\ nextRef' = nextRef + 1
                  /\ UNCHANGED getProjectsMutex
             ELSE IF now - time < GET_PROJECTS_THROTTLE_MS
                    THEN /\ Resolve(c, me, lastAvailableProjects)
                         /\ UNCHANGED <<nextRef, getProjectsMutex>>
                    ELSE /\ callers' = [callers EXCEPT ![c] =
                                          [me EXCEPT !.pc = "queued",
                                                     !.before = <<lastAvailableProjects.ref>>]]
                         /\ getProjectsMutex' = Append(getProjectsMutex, c)
                         /\ UNCHANGED nextRef
  /\ UNCHANGED <<now, dirTicks, lastAvailableProjects, isLoggedOut, sessionSubscribed,
                 projectInfoByAppProjectId, pdpeByAppProjectId, dirRemoteCalls,
                 lastRecomputedAt>>
  /\ recovery' = IF ~force /\ recovery.awaiting /\ ~(now - lastGetProjectsTime < GET_PROJECTS_THROTTLE_MS)
                    THEN [awaiting |-> FALSE, calls |-> recovery.calls \cup {c}]
                    ELSE recovery

\* slingshot-project-data-provider-engine-factory.model.ts 104
StampedeHit(c) ==
  /\ ~callers[c].force
  /\ callers[c].before[1] # lastAvailableProjects.ref

\* slingshot-project-data-provider-engine-factory.model.ts 102-109: the
\* callback runs once the caller holds the mutex
RunExclusive(c) ==
  /\ UNCHANGED NotDir
  /\ getProjectsMutex # <<>> /\ Head(getProjectsMutex) = c
  /\ callers[c].pc = "queued"
  /\ IF StampedeHit(c)
       THEN /\ Resolve(c, callers[c], lastAvailableProjects)
            /\ getProjectsMutex' = Tail(getProjectsMutex)
            /\ UNCHANGED dirRemoteCalls
       ELSE /\ callers' = [callers EXCEPT ![c].pc = "fetching", ![c].fetched = "pending"]
            /\ dirRemoteCalls' = dirRemoteCalls + 1
            /\ UNCHANGED getProjectsMutex
  /\ UNCHANGED <<now, dirTicks, lastGetProjectsTime, lastAvailableProjects, nextRef,
                 isLoggedOut, sessionSubscribed, projectInfoByAppProjectId,
                 pdpeByAppProjectId, lastRecomputedAt, recovery>>

\* slingshot-project-data-provider-engine-factory.model.ts 132-141
MapProjects(paratextIds) ==
  [i \in 1..Len(paratextIds) |-> getSlingshotAppProjectId(paratextIds[i])]

\* slingshot-project-data-provider-engine-factory.model.ts 109-145: the remote
\* call settles and the callback runs to its end, releasing the mutex
GetProjectsReturn(c, answer) ==
  /\ UNCHANGED NotDir
  /\ callers[c].pc = "fetching"
  /\ getProjectsMutex' = Tail(getProjectsMutex)
  /\ CASE answer.kind = "throw" ->
            /\ isLoggedOut' = (isLoggedOut \/ answer.message = NOT_LOGGED_IN_ERROR_MESSAGE)
            /\ Resolve(c, [callers[c] EXCEPT !.fetched = "failed"], NewArray(nextRef, <<>>))
            /\ nextRef' = nextRef + 1
            /\ UNCHANGED <<lastGetProjectsTime, lastAvailableProjects,
                           projectInfoByAppProjectId, lastRecomputedAt>>
       [] answer.kind = "status" ->
            /\ Resolve(c, [callers[c] EXCEPT !.fetched = "failed"], NewArray(nextRef, <<>>))
            /\ nextRef' = nextRef + 1
            /\ UNCHANGED <<lastGetProjectsTime, lastAvailableProjects, isLoggedOut,
                           projectInfoByAppProjectId, lastRecomputedAt>>
       [] answer.kind = "undefined" ->
            \* line 130: lastGetProjectsTime is set, then .map of undefined throws
            /\ lastGetProjectsTime' = now
            /\ callers' = [callers EXCEPT ![c].pc = "done", ![c].fetched = "failed",
                                          ![c].outcome = "rejected"]
            /\ UNCHANGED <<lastAvailableProjects, nextRef, isLoggedOut,
                           projectInfoByAppProjectId, lastRecomputedAt>>
       [] answer.kind = "projects" ->
            /\ lastGetProjectsTime' = now
            /\ lastAvailableProjects' = NewArray(nextRef, MapProjects(answer.paratextIds))
            /\ lastRecomputedAt' = now
            /\ nextRef' = nextRef + 1
            /\ projectInfoByAppProjectId' = projectInfoByAppProjectId \cup
                 { getSlingshotAppProjectId(answer.paratextIds[i]) :
                     i \in 1..Len(answer.paratextIds) }
            /\ Resolve(c, [callers[c] EXCEPT !.fetched = "ok"],
                       NewArray(nextRef, MapProjects(answer.paratextIds)))
            /\ UNCHANGED isLoggedOut
  /\ UNCHANGED <<now, dirTicks, sessionSubscribed, pdpeByAppProjectId, dirRemoteCalls>>
  /\ recovery' = IF answer.kind = "throw" /\ answer.message = NOT_LOGGED_IN_ERROR_MESSAGE
                    THEN [recovery EXCEPT !.awaiting = FALSE]
                    ELSE recovery

\* A handler that leaves the logged-out mark as it is
SessionChange_keepsLoggedOut ==
  /\ UNCHANGED NotDir
  /\ ~MicrotaskPending
  /\ sessionSubscribed
  /\ UNCHANGED <<now, dirTicks, lastGetProjectsTime, lastAvailableProjects, nextRef,
                 isLoggedOut, sessionSubscribed, projectInfoByAppProjectId,
                 pdpeByAppProjectId, getProjectsMutex, callers, dirRemoteCalls,
                 lastRecomputedAt>>
  /\ recovery' = [recovery EXCEPT !.awaiting = (recovery.awaiting \/ isLoggedOut)]

\* slingshot-project-data-provider-engine-factory.model.ts 54-56: the
\* onDidSessionChange handler
SessionChange ==
  /\ UNCHANGED NotDir
  /\ ~MicrotaskPending
  /\ sessionSubscribed
  /\ isLoggedOut' = FALSE
  /\ UNCHANGED <<now, dirTicks, lastGetProjectsTime, lastAvailableProjects, nextRef,
                 sessionSubscribed, projectInfoByAppProjectId, pdpeByAppProjectId,
                 getProjectsMutex, callers, dirRemoteCalls, lastRecomputedAt>>
  /\ recovery' = [recovery EXCEPT !.awaiting = (recovery.awaiting \/ isLoggedOut)]

\* slingshot-project-data-provider-engine-factory.model.ts 63-80
createProjectDataProviderEngine(appProjectId) ==
  /\ UNCHANGED NotDir
  /\ ~MicrotaskPending
  /\ appProjectId \in projectInfoByAppProjectId
  /\ pdpeByAppProjectId' = pdpeByAppProjectId \cup {appProjectId}
  /\ UNCHANGED <<now, dirTicks, lastGetProjectsTime, lastAvailableProjects, nextRef,
                 isLoggedOut, sessionSubscribed, projectInfoByAppProjectId,
                 getProjectsMutex, callers, dirRemoteCalls, lastRecomputedAt, recovery>>

\* slingshot-project-data-provider-engine-factory.model.ts 82-84
dispose ==
  /\ UNCHANGED NotDir
  /\ ~MicrotaskPending
  /\ sessionSubscribed' = FALSE
  /\ UNCHANGED <<now, dirTicks, lastGetProjectsTime, lastAvailableProjects, nextRef,
                 isLoggedOut, projectInfoByAppProjectId, pdpeByAppProjectId,
                 getProjectsMutex, callers, dirRemoteCalls, lastRecomputedAt, recovery>>

\* Date.now() moves on: by a millisecond, or by a whole throttle interval
ClockTick(ms) ==
  /\ UNCHANGED NotDir
  /\ ~MicrotaskPending
  /\ dirTicks < MaxTicks
  /\ dirTicks' = dirTicks + 1
  /\ now' = now + ms
  /\ UNCHANGED <<lastGetProjectsTime, lastAvailableProjects, nextRef, isLoggedOut,
                 sessionSubscribed, projectInfoByAppProjectId, pdpeByAppProjectId,
                 getProjectsMutex, callers, dirRemoteCalls, lastRecomputedAt, recovery>>

\* slingshot-project-data-provider-engine-factory.model.ts 37-55: the fields
\* after construction; Date.now() is far more than a throttle interval past 0
InitDir ==
  /\ now = GET_PROJECTS_THROTTLE_MS
  /\ dirTicks = 0
  /\ lastGetProjectsTime = 0
  /\ lastAvailableProjects = NewArray(0, <<>>)
  /\ nextRef = 1
  /\ isLoggedOut = FALSE
  /\ sessionSubscribed = TRUE
  /\ projectInfoByAppProjectId = {}
  /\ pdpeByAppProjectId = {}
  /\ getProjectsMutex = <<>>
  /\ callers = [c \in Callers |-> IdleCaller]
  /\ dirRemoteCalls = 0
  /\ lastRecomputedAt = 0
  /\ recovery = [awaiting |-> FALSE, calls |-> {}]

NextDir ==
  \/ \E c \in Callers, force \in BOOLEAN : getAvailableProjects(c, force)
  \/ \E c \in Callers : RunExclusive(c)
  \/ \E c \in Callers, answer \in DirectoryAnswers : GetProjectsReturn(c, answer)
  \/ SessionChange
  \/ \E id \in projectInfoByAppProjectId : createProjectDataProviderEngine(id)
  \/ dispose
  \/ \E ms \in {1, GET_PROJECTS_THROTTLE_MS} : ClockTick(ms)

(* == authentication: scripture-forge-authentication-provider.model.ts == *)
Logins == 1..NumLogins

\* a task queued on #authTokensMutex by login call i
CheckTask(i) == [kind |-> "check", login |-> i]
ExchangeTask(i) == [kind |-> "exchange", login |-> i]

\* AsyncVariable.rejectWithReason on the current request's variable, if any:
\* a settled variable is left as it is
RejectCurrentCode(avs) ==
  IF authorizeRequestInfo # 0 /\ avs[authorizeRequestInfo] = "pending"
    THEN [avs EXCEPT ![authorizeRequestInfo] = "rejected"]
    ELSE avs

\* constructor 170-180
NewAuthenticationProvider(uri) ==
  /\ UNCHANGED NotAuth
  /\ redirectUri = <<>>
  /\ redirectUri' = <<uri>>
  /\ UNCHANGED <<hasRetrievedAuthTokensFromStorage, authTokens, authorizeRequestInfo,
                 authCodeAvs, authTokensMutex, logins>>

\* login() 261-265: without a redirect uri it throws; else isLoggedIn() asks
\* #getAccessToken, which queues on the mutex (542)
login(i) ==
  /\ UNCHANGED NotAuth
  /\ redirectUri # <<>>
  /\ logins[i].pc = "idle"
  /\ IF ~redirectUri[1]
       THEN /\ logins' = [logins EXCEPT ![i].pc = "threw"]
            /\ UNCHANGED authTokensMutex
       ELSE /\ logins' = [logins EXCEPT ![i].pc = "checking"]
            /\ authTokensMutex' = Append(authTokensMutex, CheckTask(i))
  /\ UNCHANGED <<redirectUri, hasRetrievedAuthTokensFromStorage, authTokens,
                 authorizeRequestInfo, authCodeAvs>>

\* #getAccessToken 480-495: the tokens after the first look into storage
TokensAfterRetrieval(stored) ==
  IF authTokens = "none" /\ ~hasRetrievedAuthTokensFromStorage /\ stored
    THEN "valid"
    ELSE authTokens

\* login() 265-300: isLoggedIn() has answered, after reading the stored tokens
\* on the first call (480-494). Logged in: return false. Else the old request's
\* variable is rejected, a new request is made and the browser is opened; if
\* openUrl throws, the catch block (311-316) cleans up and rethrows
LoginChecked(i, stored, openOk) ==
  /\ UNCHANGED NotAuth
  /\ logins[i].pc = "checking"
  /\ authTokensMutex # <<>>
  /\ Head(authTokensMutex) = CheckTask(i)
  /\ authTokensMutex' = Tail(authTokensMutex)
  /\ hasRetrievedAuthTokensFromStorage' = TRUE
  /\ IF TokensAfterRetrieval(stored) = "valid"
       THEN /\ logins' = [logins EXCEPT ![i].pc = "returnedFalse"]
            /\ authTokens' = "valid"
            /\ UNCHANGED <<authorizeRequestInfo, authCodeAvs>>
       ELSE /\ authCodeAvs' = Append(RejectCurrentCode(authCodeAvs), "pending")
            /\ IF openOk
                 THEN /\ authorizeRequestInfo' = Len(authCodeAvs) + 1
                      /\ logins' = [logins EXCEPT ![i].pc = "awaitCode",
                                                  ![i].av = Len(authCodeAvs) + 1]
                      /\ UNCHANGED authTokens
                 ELSE /\ authorizeRequestInfo' = 0
                      /\ authTokens' = "none"
                      /\ logins' = [logins EXCEPT ![i].pc = "threw",
                                                  ![i].av = Len(authCodeAvs) + 1]
  /\ UNCHANGED redirectUri

\* handleAuthCallback 206-234 with the state parameter of request st
handleAuthCallback(st) ==
  /\ UNCHANGED NotAuth
  /\ st <= Len(authCodeAvs)
  /\ IF /\ authorizeRequestInfo # 0
        /\ st = authorizeRequestInfo
        /\ authCodeAvs[authorizeRequestInfo] = "pending"
       THEN authCodeAvs' = [authCodeAvs EXCEPT ![authorizeRequestInfo] = "resolved"]
       ELSE UNCHANGED authCodeAvs
  /\ UNCHANGED <<redirectUri, hasRetrievedAuthTokensFromStorage, authTokens,
                 authorizeRequestInfo, authTokensMutex, logins>>

\* createAuthorizationCodeAsyncVariable 91-94: a pending variable rejects
\* when its deadline passes
AuthorizeTimeout(k) ==
  /\ UNCHANGED NotAuth
  /\ k <= Len(authCodeAvs)
  /\ authCodeAvs[k] = "pending"
  /\ authCodeAvs' = [authCodeAvs EXCEPT ![k] = "rejected"]
  /\ UNCHANGED <<redirectUri, hasRetrievedAuthTokensFromStorage, authTokens,
                 authorizeRequestInfo, authTokensMutex, logins>>

\* login() 303-310: the exchange is handed to the mutex and login returns true
\* without waiting for it
LoginReturnsAfterCode(i) ==
  [logins EXCEPT ![i].pc = "returnedTrue", ![i].exchange = "queued"]

\* login() 300-316: the wait for the authorization code ends
LoginCodeSettled(i) ==
  /\ UNCHANGED NotAuth
  /\ logins[i].pc = "awaitCode"
  /\ authCodeAvs[logins[i].av] # "pending"
  /\ IF authCodeAvs[logins[i].av] = "resolved"
       THEN /\ authTokensMutex' = Append(authTokensMutex, ExchangeTask(i))
            /\ logins' = LoginReturnsAfterCode(i)
            /\ UNCHANGED <<authTokens, authorizeRequestInfo>>
       ELSE /\ authorizeRequestInfo' = 0
            /\ authTokens' = "none"
            /\ logins' = [logins EXCEPT ![i].pc = "threw"]
            /\ UNCHANGED authTokensMutex
  /\ UNCHANGED <<redirectUri, hasRetrievedAuthTokensFromStorage, authCodeAvs>>

\* #requestAccessTokenUsingAuthorizationCode 555-560, run by the mutex: it throws
\* when the request info is gone, else it posts the code to the token endpoint
ExchangeStart(i) ==
  /\ UNCHANGED NotAuth
  /\ authTokensMutex # <<>>
  /\ Head(authTokensMutex) = ExchangeTask(i)
  /\ logins[i].exchange = "queued"
  /\ IF authorizeRequestInfo = 0
       THEN /\ logins' = [logins EXCEPT ![i].exchange = "failed"]
            /\ authTokensMutex' = Tail(authTokensMutex)
       ELSE /\ logins' = [logins EXCEPT ![i].exchange = "fetching"]
            /\ UNCHANGED authTokensMutex
  /\ UNCHANGED <<redirectUri, hasRetrievedAuthTokensFromStorage, authTokens,
                 authorizeRequestInfo, authCodeAvs>>

\* 573-590 and #setAuthTokens 452-471: the token endpoint answers; a token set
\* is stored, a response that is not ok throws and stores nothing
ExchangeDone(i, ok) ==
  /\ UNCHANGED NotAuth
  /\ authTokensMutex # <<>>
  /\ Head(authTokensMutex) = ExchangeTask(i)
  /\ logins[i].exchange = "fetching"
  /\ authTokensMutex' = Tail(authTokensMutex)
  /\ IF ok
       THEN /\ authTokens' = "valid"
            /\ logins' = [logins EXCEPT ![i].exchange = "stored"]
       ELSE /\ logins' = [logins EXCEPT ![i].exchange = "failed"]
            /\ UNCHANGED authTokens
  /\ UNCHANGED <<redirectUri, hasRetrievedAuthTokensFromStorage,
                 authorizeRequestInfo, authCodeAvs>>

InitAuth ==
  /\ redirectUri = <<>>
  /\ hasRetrievedAuthTokensFromStorage = FALSE
  /\ authTokens = "none"
  /\ authorizeRequestInfo = 0
  /\ authCodeAvs = <<>>
  /\ authTokensMutex = <<>>
  /\ logins = [i \in Logins |-> [pc |-> "idle", av |-> 0, exchange |-> "none"]]

NextAuth ==
  \/ \E uri \in BOOLEAN : NewAuthenticationProvider(uri)
  \/ \E i \in Logins : login(i)
  \/ \E i \in Logins, stored, openOk \in BOOLEAN : LoginChecked(i, stored, openOk)
  \/ \E st \in Logins : handleAuthCallback(st)
  \/ \E k \in Logins : AuthorizeTimeout(k)
  \/ \E i \in Logins : LoginCodeSettled(i)
  \/ \E i \in Logins : ExchangeStart(i)
  \/ \E i \in Logins, ok \in BOOLEAN : ExchangeDone(i, ok)

(* ====================== PDP factory: pdp-factory.ts ===================== *)
PdpCallers == 1..NumPdpCalls

\* project ids the control plane asks providers for
PdpProjects == {"p1", "p2"}

\* pdp-factory.ts 51-59, 66: `SF0${generateRandomLetters(20)}-pdp-data`, a
\* random choice; two of its values stand for all of them
PdpIds == {"SF0A-pdp-data", "SF0B-pdp-data"}

IdlePdpCall == [pc |-> "idle", project |-> "", pdpId |-> "", result |-> <<>>]

\* pdp-factory.ts 23-26
setRpcClient ==
  /\ UNCHANGED NotPdp
  /\ ~pdpRpcClient
  /\ pdpRpcClient' = TRUE
  /\ UNCHANGED <<knownPdps, pdpRegistrations, pdpCalls>>

\* pdp-factory.ts 63-64
KnownPdp(projectId) == knownPdps[projectId] # <<>>

\* pdp-factory.ts 62-69: getProjectDataProviderId up to its await
getProjectDataProviderId(c, projectId, pdpId) ==
  /\ UNCHANGED NotPdp
  /\ pdpCalls[c].pc = "idle"
  /\ \A d \in PdpCallers : d < c => pdpCalls[d].pc # "idle"
  /\ pdpCalls' = [pdpCalls EXCEPT ![c] =
       IF KnownPdp(projectId)
         THEN [IdlePdpCall EXCEPT !.pc = "done", !.project = projectId,
                                  !.result = knownPdps[projectId]]
         ELSE IF ~pdpRpcClient
                THEN [IdlePdpCall EXCEPT !.pc = "threw", !.project = projectId]
                ELSE [IdlePdpCall EXCEPT !.pc = "registering", !.project = projectId,
                                         !.pdpId = pdpId]]
  /\ UNCHANGED <<pdpRpcClient, knownPdps, pdpRegistrations>>

\* pdp-factory.ts 69-73: registerNetworkObject settles; on success the provider
\* is stored and its id returned, on failure the call rejects
PdpRegistered(c, ok) ==
  /\ UNCHANGED NotPdp
  /\ pdpCalls[c].pc = "registering"
  /\ IF ok
       THEN /\ pdpRegistrations' = Append(pdpRegistrations,
                                          [project |-> pdpCalls[c].project,
                                           pdpId |-> pdpCalls[c].pdpId])
            /\ knownPdps' = [knownPdps EXCEPT ![pdpCalls[c].project] = <<pdpCalls[c].pdpId>>]
            /\ pdpCalls' = [pdpCalls EXCEPT ![c].pc = "done",
                                            ![c].result = <<pdpCalls[c].pdpId>>]
       ELSE /\ pdpCalls' = [pdpCalls EXCEPT ![c].pc = "threw"]
            /\ UNCHANGED <<knownPdps, pdpRegistrations>>
  /\ UNCHANGED pdpRpcClient

InitPdp ==
  /\ pdpRpcClient = FALSE
  /\ knownPdps = [p \in PdpProjects |-> <<>>]
  /\ pdpRegistrations = <<>>
  /\ pdpCalls = [c \in PdpCallers |-> IdlePdpCall]

NextPdp ==
  \/ setRpcClient
  \/ \E c \in PdpCallers, projectId \in PdpProjects, pdpId \in PdpIds :
       getProjectDataProviderId(c, projectId, pdpId)
  \/ \E c \in PdpCallers, ok \in BOOLEAN : PdpRegistered(c, ok)

(* --------------------------- specifications ----------------------------- *)
Init ==
  /\ InitWorker /\ InitChan /\ InitHost /\ InitConn /\ InitDir /\ InitAuth /\ InitPdp

SpecWorker == Init /\ [][NextWorker]_vars

SpecHost == Init /\ [][NextHost]_vars

SpecConn == Init /\ [][NextConn]_vars

SpecDir == Init /\ [][NextDir]_vars

SpecAuth == Init /\ [][NextAuth]_vars

SpecPdp == Init /\ [][NextPdp]_vars

\* The event loop runs every timer whose deadline has passed and every
\* continuation whose awaited value has settled; time does not stand still
\* The forked worker and the host on the two ends of one channel, from start
\* through the handshake, with a further sender on the worker's end
NextHandshake ==
  \/ WorkerStart
  \/ WorkerReceive
  \/ PeerSendToWorker
  \/ initializeChildProcess
  \/ HostReceive
  \/ \E authToken \in {"", "tokA"} : HostInitializeDone(authToken)

SpecHandshake == Init /\ [][NextHandshake]_vars

\* The worker and the host on the two ends of one IPC channel, nobody else
\* writing to it
NextSystem ==
  \/ WorkerStart
  \/ WorkerSignal
  \/ WorkerReceive
  \/ \E ok \in BOOLEAN : InitRpcConnected(ok)
  \/ \E ok \in BOOLEAN : InitSfConnected(ok)
  \/ \E ok \in BOOLEAN : InitRegistered(ok)
  \/ getProjects
  \/ GetProjectsTimeout
  \/ initializeChildProcess
  \/ HostReceive
  \/ \E result \in ApiResults : HostFetchDone(result)
  \/ \E authToken \in {"", "tokA"} : HostInitializeDone(authToken)

SpecSystem == Init /\ [][NextSystem]_vars

\* Both processes get to run: start() (index.ts 49) and initializeChildProcess
\* (child-process-handler.ts 30) are called, each 'message' listener handles
\* every delivered message (index.ts 54, child-process-handler.ts 49), and the
\* host's awaits in sendInitializeMessage (96-106) and sendProjectResultsMessage
\* (80) settle
SystemFairness ==
  /\ WF_vars(WorkerStart)
  /\ WF_vars(initializeChildProcess)
  /\ WF_vars(WorkerReceive)
  /\ WF_vars(HostReceive)
  /\ WF_vars(\E authToken \in {"", "tokA"} : HostInitializeDone(authToken))
  /\ WF_vars(\E result \in ApiResults : HostFetchDone(result))

SpecSystemLive == Init /\ [][NextSystem]_vars /\ SystemFairness

\* The host's event loop runs every delivered message (child-process-handler.ts
\* 49-51) and every pending sfApi.getProjects() promise settles (78-80)
HostFairness ==
  /\ WF_vars(HostReceive)
  /\ WF_vars(\E result \in ApiResults : HostFetchDone(result))

SpecHostLive == Init /\ [][NextHost]_vars /\ HostFairness

ConnFairness ==
  /\ WF_vars(\E ms \in {SfTimeoutMs} : Elapse(ms))
  /\ WF_vars(ConnectTimeout)
  /\ \A t \in Tasks :
       /\ WF_vars(SubscribeTimeout(t))
       /\ WF_vars(DisconnectTimeout(t))
       /\ WF_vars(ConnectReturn(t))
       /\ WF_vars(DisconnectResume(t))
       /\ WF_vars(DisconnectFinish(t))
       /\ WF_vars(ProjectConnected(t))
       /\ WF_vars(ProjectSubscribed(t))
       /\ WF_vars(ChapterCheck(t))
       /\ WF_vars(ChapterConnected(t))
       /\ WF_vars(ChapterSubscribed(t))

SpecConnLive == Init /\ [][NextConn]_vars /\ ConnFairness




(* ============================== claims ================================== *)
HandshakeDone == receivedPing /\ receivedPong

\* C1: until the worker has received a ping and a pong, everything it has put
\* on the channel is a ping, a pong or an error; a message the gate refused is
\* never put on the channel later.
C1_HandshakeGate ==
  /\ ~HandshakeDone => \A i \in 1..Len(wSent) : wSent[i].type \in {"ping", "pong", "error"}
  /\ \A d \in 1..Len(wDropped) : \A i \in 1..Len(wSent) : wSent[i] # wDropped[d]

\* C1 witness: a getProjects was refused before the handshake and never went
\* out, and the handshake then completed.
C1_Witness ==
  /\ CountType(wDropped, "getProjects") > 0
  /\ CountType(wSent, "getProjects") = 0
  /\ HandshakeDone

\* C2: handling an initialize when one has been handled before sends exactly
\* one 'Already initialized' error, keeps the stored token and endpoints,
\* creates no control-plane client, starts no back-end connect and leaves the
\* worker running.
C2_DuplicateInitialize ==
  [][ (/\ wRecvCount["initialize"] >= 1
       /\ wRecvCount'["initialize"] = wRecvCount["initialize"] + 1)
      => (/\ wSent' = Append(wSent, createErrorMessage(nextMsgId, "Already initialized"))
          /\ w2h' = Append(w2h, createErrorMessage(nextMsgId, "Already initialized"))
          /\ config' = config
          /\ currentAuthToken' = currentAuthToken
          /\ rpcClient' = rpcClient
          /\ rpcClientsCreated' = rpcClientsCreated
          /\ sfConnects' = sfConnects
          /\ initStep' = initStep
          /\ wpc' = "running") ]_vars

\* C2 witness: two initialize messages handled, one error sent, still running.
C2_Witness ==
  /\ wRecvCount["initialize"] = 2
  /\ CountType(wSent, "error") = 1
  /\ rpcClientsCreated = 1
  /\ wpc = "running"

\* C3 (as claimed): while the handshake is incomplete the worker has stored no
\* credentials or endpoints, created no client, started no back-end connect
\* and resolved no getProjects request.
C3_NothingHonoredBeforeHandshake ==
  ~HandshakeDone =>
    /\ config = <<>>
    /\ currentAuthToken = <<>>
    /\ rpcClient = "none"
    /\ sfConnects = 0
    /\ \A i \in 1..Len(gpAv) : gpAv[i].state # "resolved"

\* C4: the host has sent no more initialize messages than it has received
\* pongs; in particular none before the first pong.
C4_InitializeAfterPong == CountType(hSent, "initialize") <= hRecvCount["pong"]

\* C4 witness: the host has sent an initialize.
C4_Witness == CountType(hSent, "initialize") >= 1 /\ hRecvCount["ping"] >= 1

\* C5: a getProjects() call made while pendingProjectResults is set returns
\* that same value and sends nothing; the getProjects messages sent exceed the
\* projectResults received by at most one.
C5_GetProjectsSingleFlight ==
  /\ \A i \in 1..Len(gpCalls) :
       gpCalls[i].pendingBefore # 0 =>
         /\ gpCalls[i].promise = gpCalls[i].pendingBefore
         /\ gpCalls[i].sentAfter = gpCalls[i].sentBefore
  /\ CountType(wSent, "getProjects") <= wRecvCount["projectResults"] + 1

\* C5 witness: a second call joined a request whose message is on the channel
\* and whose value is still pending.
C5_Witness ==
  /\ Len(gpCalls) >= 2
  /\ gpCalls[2].pendingBefore # 0
  /\ CountType(wSent, "getProjects") = 1
  /\ pendingProjectResults # 0
  /\ gpAv[pendingProjectResults].state = "pending"

\* C6 (as claimed): the host never has two remote directory calls in flight;
\* a getProjects received during a fetch starts no second call.
C6_NoSecondRemoteCall == hFetching <= 1

\* Connect calls made since the last disconnect() call or teardown
ConnectsInSession == {t \in Tasks : tasks[t].op = "connect" /\ tasks[t].session = session}

\* C7: connect() calls made without an intervening disconnect() create at
\* most one transport between them, every transport comes with exactly one
\* connection value, all of the calls await the one connection value the
\* module holds, and each call settles with that value's outcome.
C7_ConnectIdempotent ==
  /\ transportsInSession <= 1
  /\ Len(sockets) = Len(connAvs)
  /\ \A t \in ConnectsInSession :
       /\ connectionAsyncVariable # 0
       /\ tasks[t].av = connectionAsyncVariable
  /\ \A t \in Tasks :
       tasks[t].op = "connect" /\ tasks[t].pc = "done" =>
         /\ connAvs[tasks[t].av].state # "pending"
         /\ tasks[t].result = "ok" <=> connAvs[tasks[t].av].state = "resolved"

\* Two connect() calls of one session have both returned the shared outcome
C7_Witness ==
  /\ transportsInSession = 1
  /\ \E t, u \in ConnectsInSession :
       /\ t # u
       /\ tasks[t].pc = "done" /\ tasks[u].pc = "done"
       /\ tasks[t].result = "ok" /\ tasks[u].result = "ok"

\* C8: once a disconnect() has completed, no cache holds a document that was
\* stored before it completed.
C8_NoEntryOfPriorSession ==
  /\ \A p \in Projects :
       projectDocuments[p] # <<>> => projectDocuments[p][1].epoch = epoch
  /\ \A k \in TextIds :
       chapterDeltas[k] # <<>> => chapterDeltas[k][1].epoch = epoch

\* Tasks that have issued subscribe+fetch for a project document and await
\* the callback
SubscribingProject(projectId) ==
  {t \in Tasks : /\ tasks[t].pc = "projAwaitSub"
                 /\ tasks[t].sub = "pending"
                 /\ tasks[t].project = projectId}

\* Tasks that have issued subscribe+fetch for a chapter document and await
\* the callback
SubscribingChapter(textId) ==
  {t \in Tasks : /\ tasks[t].pc = "chapAwaitSub"
                 /\ tasks[t].sub = "pending"
                 /\ createTextId(tasks[t].project, tasks[t].ref[1]) = textId}

\* C9: for callers that request one key before its first subscription
\* completes, only one subscribe+fetch is outstanding for that key.
C9_OneSubscribePerKey ==
  /\ \A p \in Projects : Cardinality(SubscribingProject(p)) <= 1
  /\ \A k \in TextIds : Cardinality(SubscribingChapter(k)) <= 1

\* The non-forced callers that found the snapshot of identity ref expired and
\* went to the mutex
Stampede(ref) ==
  {c \in Callers : /\ ~callers[c].force
                   /\ callers[c].before = <<ref>>}

NoForcedCall == \A c \in Callers : ~callers[c].force

SnapshotRefs == 0..(nextRef - 1)

\* The success path of the stampede check (line 104): among non-forced calls
\* that found the same snapshot expired and queued on the mutex, at most one
\* makes a remote call that succeeds.
StampedeOneSuccessfulCall ==
  \A ref \in SnapshotRefs :
    Cardinality({c \in Stampede(ref) : callers[c].fetched = "ok"}) <= 1

\* C10: non-forced getAvailableProjects() calls that found the same snapshot
\* expired and queued on the mutex make at most one remote call in total, and
\* all of them receive the same snapshot reference.
C10_StampedeOneRemoteCall ==
  NoForcedCall =>
    \A ref \in SnapshotRefs :
      /\ Cardinality({c \in Stampede(ref) : callers[c].fetched # "none"}) <= 1
      /\ \A c, d \in Stampede(ref) :
           /\ callers[c].outcome = "resolved" /\ callers[d].outcome = "resolved"
           => callers[c].result[1].ref = callers[d].result[1].ref

\* A settled connection value keeps its outcome
ConnectionValueStable ==
  \A i \in 1..Len(connAvs) :
    connAvs[i].state # "pending" =>
      /\ connAvs'[i].state = connAvs[i].state
      /\ connAvs'[i].value = connAvs[i].value
      /\ connAvs'[i].why = connAvs[i].why

\* A settled subscription value keeps its outcome for as long as its caller
\* awaits it
SubscriptionValueStable ==
  \A t \in Tasks :
    /\ tasks[t].pc \in {"projAwaitSub", "chapAwaitSub"}
    /\ tasks[t].sub \in {"resolved", "rejected"}
    /\ tasks'[t].pc = tasks[t].pc
    => tasks'[t].sub = tasks[t].sub /\ tasks'[t].why = tasks[t].why

\* A value rejected by its timer was rejected when its deadline had passed
TimeoutOnlyAfterDeadline ==
  /\ \A i \in 1..Len(connAvs) :
       connAvs[i].why = "timeout" => connAvs[i].state = "rejected" /\ connAvs[i].due
  /\ \A t \in Tasks :
       tasks[t].why = "timeout" =>
         /\ tasks[t].sub = "rejected" \/ tasks[t].closed = "rejected"
         /\ tasks[t].timerDue

\* C11: a connection value or subscription value created with the deadline
\* SF_TIMEOUT_MS does not stay pending for ever (when its event source does
\* not settle it, its timer rejects it), the timer rejects it only once the
\* deadline has passed, and a settled value never changes its outcome.
C11_DeadlineSettles ==
  /\ []TimeoutOnlyAfterDeadline
  /\ [][ConnectionValueStable /\ SubscriptionValueStable]_vars
  /\ \A i \in 1..MaxOps :
       (i <= Len(connAvs) /\ connAvs[i].state = "pending")
         ~> (i <= Len(connAvs) /\ connAvs[i].state # "pending")
  /\ \A t \in Tasks :
       (tasks[t].pc \in {"projAwaitSub", "chapAwaitSub"} /\ tasks[t].sub = "pending")
         ~> (tasks[t].sub # "pending")

\* C11 witness: the connect value timed out and its caller failed
C11_Witness ==
  \E t \in Tasks :
    /\ tasks[t].op = "connect" /\ tasks[t].pc = "done" /\ tasks[t].result = "rejected"
    /\ connAvs[tasks[t].av].why = "timeout"

GracefulExit == wpc = "exited" /\ exitCode = <<0>>

\* C12: once a shutdown message has been handled the worker has exited with
\* code 0; a SIGINT or SIGTERM taken in any running state exits it with code
\* 0; and an exited worker sends nothing and stays exited with its code.
C12_GracefulTermination ==
  /\ [](wRecvCount["shutdown"] > 0 => GracefulExit)
  /\ [][WorkerSignal => GracefulExit']_vars
  /\ [][wpc = "exited" => UNCHANGED <<wpc, exitCode, wSent, w2h, wDropped>>]_vars

\* C12 witness: a shutdown arrived while the back-end connect of an
\* initialize was in flight, before the handshake was complete
C12_Witness ==
  /\ wRecvCount["shutdown"] = 1
  /\ GracefulExit
  /\ initStep = "sfConnecting"
  /\ ~HandshakeDone

\* C13: an exit with 102 happened at the control-plane step, before any
\* back-end connect; an exit with 103 happened at the back-end step, after the
\* control-plane client connected and before the factory was set up; an exit
\* with 104 happened at the registration step.
C13_InitializeFailureCodes ==
  /\ exitCode = <<102>> =>
       /\ initStep \in {"none", "rpcConnecting"}
       /\ sfConnects = 0
       /\ ~getProjectsMessage
  /\ exitCode = <<103>> =>
       /\ \/ initStep = "sfConnecting"
          \/ /\ initStep = "rpcConnecting"
             /\ config[1].wssBaseUrl = "" \/ currentAuthToken[1] = ""
       /\ rpcClient = "created"
       /\ ~getProjectsMessage
  /\ exitCode = <<104>> =>
       /\ initStep = "registering"
       /\ sfConnects = 1
       /\ getProjectsMessage

\* C13 witness: the control-plane client connected, the back-end connect
\* failed, and the worker exited with 103
C13_Witness ==
  /\ wpc = "exited" /\ exitCode = <<103>>
  /\ initStep = "sfConnecting"
  /\ sfConnects = 1

\* Document requests that wait for a connection value which is still pending
WaitingForConnect ==
  {t \in Tasks : /\ tasks[t].op \in {"getProjectDoc", "getChapterDoc"}
                 /\ tasks[t].pc \in {"projAwaitConn", "chapAwaitConn"}
                 /\ connAvs[tasks[t].av].state = "pending"}

\* C14: a getProjectDoc or getChapterDoc call made while a connect attempt is
\* still in flight fails at once; no such call waits for the connection.
C14_FailFastBeforeConnected == WaitingForConnect = {}

\* Connect attempts that disconnect() cancelled while they were in flight;
\* attempt i created connection value i and transport i
CancelledAttempts == {i \in 1..Len(connAvs) : connAvs[i].why = "Disconnecting"}

\* C15: a connect attempt cancelled by disconnect() has its connection value
\* rejected and no longer current, its transport closing or closed and no
\* longer current, and no connect() caller that awaited it has succeeded.
C15_DisconnectCancelsConnect ==
  \A i \in CancelledAttempts :
    /\ connAvs[i].state = "rejected"
    /\ connectionAsyncVariable # i
    /\ sockets[i].state \in {"closing", "closed"}
    /\ socket # i
    /\ \A t \in Tasks :
         tasks[t].op = "connect" /\ tasks[t].av = i /\ tasks[t].pc = "done"
           => tasks[t].result = "rejected"

\* C15 witness: a connect() caller awaited an attempt, disconnect()
\* cancelled it, its transport has closed and a caller has failed
C15_Witness ==
  \E i \in CancelledAttempts :
    /\ sockets[i].state = "closed"
    /\ \E t \in Tasks :
         /\ tasks[t].op = "connect" /\ tasks[t].av = i
         /\ tasks[t].pc = "done" /\ tasks[t].result = "rejected"

\* disconnect() calls that have returned or thrown
DisconnectsDone == {t \in Tasks : tasks[t].op = "disconnect" /\ tasks[t].pc = "done"}

TeardownLeavesNothing ==
  \A t \in Tasks :
    \/ DisconnectResume(t)
    \/ DisconnectCall(t) /\ tasks'[t].pc = "awaitClosed"
    => socket' = 0 /\ connectionAsyncVariable' = 0

\* disconnect() called with no transport completes at its next step
NoOpDisconnectResolves ==
  \A t \in Tasks :
    DisconnectCall(t) /\ socket = 0
      => tasks'[t].pc = "awaitClosed" /\ tasks'[t].closed = "resolved"

\* disconnect() rejects only when the timer of its close value has fired
RejectsOnlyByTimer ==
  \A t \in Tasks :
    DisconnectFinish(t) /\ tasks'[t].result = "rejected"
      => tasks[t].why = "timeout" /\ tasks[t].timerDue

\* A disconnect() past its teardown: the connection value and the transport
\* that were current at the call are no longer current, and that transport is
\* closing or closed
TornDown ==
  \A t \in Tasks :
    /\ tasks[t].op = "disconnect"
    /\ tasks[t].pc \in {"awaitClosed", "done"}
    /\ tasks[t].av # 0
    => /\ connectionAsyncVariable # tasks[t].av
       /\ socket # tasks[t].av
       /\ sockets[tasks[t].av].state \in {"closing", "closed"}

ConnectionPending ==
  connectionAsyncVariable # 0 /\ connAvs[connectionAsyncVariable].state = "pending"

\* What an error event of transport s does to the connection manager
ErrorEventEffect(s) ==
  IF ConnectionPending
    THEN /\ connAvs'[connectionAsyncVariable].state = "rejected"
         /\ UNCHANGED <<connectionAsyncVariable, socket, projectDocuments, chapterDeltas>>
    ELSE /\ UNCHANGED <<connectionAsyncVariable, connAvs, socket, projectDocuments,
                        chapterDeltas, tasks>>
         /\ sockets'[s].state \notin {"closing", "closed"} \/ sockets[s].state = "closing"

\* connect() calls that returned although their connection value was rejected
ConnectSucceededOnRejected ==
  {t \in Tasks : /\ tasks[t].op = "connect" /\ tasks[t].pc = "done"
                 /\ connAvs[tasks[t].av].state = "rejected"
                 /\ tasks[t].result # "rejected"}

\* C17: an error event of a transport rejects the connection value when it is
\* pending, and then no connect() caller that awaited it succeeds; when the
\* value has settled (or there is none) the event leaves the connection value,
\* the module's transport and both document caches as they are and does not
\* close the transport.
C17_TransportError ==
  /\ [](ConnectSucceededOnRejected = {})
  /\ [][\A s \in 1..Len(sockets) : SocketError(s) => ErrorEventEffect(s)]_vars

\* C17 witness: an error event rejected the pending connection value and a
\* connect() caller that awaited it has failed
C17_Witness ==
  \E t \in Tasks : /\ tasks[t].op = "connect" /\ tasks[t].pc = "done"
                   /\ tasks[t].result = "rejected"
                   /\ connAvs[tasks[t].av].why = "error"

\* A call that found its key in the cache has returned the cached handle and
\* awaits nothing
ReturnedCached(t, entry) ==
  /\ tasks'[t].pc = "done"
  /\ tasks'[t].result = "ok"
  /\ tasks'[t].ret = <<entry[1].doc>>
  /\ tasks'[t].sub = "none"
  /\ UNCHANGED <<projectDocuments, chapterDeltas>>

\* Calls for a cached key return the cached handle at once
HitReturnsCached ==
  /\ \A t \in Tasks, projectId \in Projects :
       GetProjectDocCall(t, projectId) /\ projectDocuments[projectId] # <<>>
         => ReturnedCached(t, projectDocuments[projectId])
  /\ \A t \in Tasks, projectId \in Projects, ref \in Refs :
       GetChapterDocCall(t, projectId, ref)
         /\ chapterDeltas[createTextId(projectId, ref)] # <<>>
         => ReturnedCached(t, chapterDeltas[createTextId(projectId, ref)])

\* A successful request stores the handle it returns
SuccessStoresReturned ==
  /\ \A t \in Tasks :
       ProjectSubscribed(t) /\ tasks'[t].op = "getProjectDoc" /\ tasks'[t].result = "ok"
         => projectDocuments'[tasks[t].project] # <<>>
            /\ tasks'[t].ret = <<projectDocuments'[tasks[t].project][1].doc>>
  /\ \A t \in Tasks :
       ChapterSubscribed(t) /\ tasks'[t].result = "ok"
         => LET textId == createTextId(tasks[t].project, tasks[t].ref[1])
            IN /\ chapterDeltas'[textId] # <<>>
               /\ tasks'[t].ret = <<chapterDeltas'[textId][1].doc>>

\* A stored handle stays the cached handle of its key until a disconnect()
\* completes
CachedHandleKept ==
  \/ \E t \in Tasks : DisconnectFinish(t)
  \/ /\ \A projectId \in Projects :
          projectDocuments[projectId] # <<>>
            => /\ projectDocuments'[projectId] # <<>>
               /\ projectDocuments'[projectId][1].doc = projectDocuments[projectId][1].doc
     /\ \A textId \in TextIds :
          chapterDeltas[textId] # <<>>
            => /\ chapterDeltas'[textId] # <<>>
               /\ chapterDeltas'[textId][1].doc = chapterDeltas[textId][1].doc

\* C18: a successful getProjectDoc(k) or getChapterDoc(k) stores the handle
\* it returns; until a disconnect() completes that handle stays the one
\* cached for k; and a call for a cached key returns the cached handle at
\* once, issuing no fetch and no subscribe.
C18_CacheHit == [][HitReturnsCached /\ SuccessStoresReturned /\ CachedHandleKept]_vars

\* C18 witness: one getProjectDoc call subscribed and succeeded, a later one
\* for the same project was answered from the cache with the same handle
C18_Witness ==
  \E t, u \in Tasks :
    /\ tasks[t].op = "getProjectDoc" /\ tasks[u].op = "getProjectDoc"
    /\ tasks[t].pc = "done" /\ tasks[u].pc = "done"
    /\ tasks[t].result = "ok" /\ tasks[u].result = "ok"
    /\ tasks[t].project = tasks[u].project
    /\ tasks[t].av # 0 /\ tasks[u].av = 0
    /\ tasks[t].ret = tasks[u].ret

\* The continuation of a request whose subscription was rejected (by the
\* subscribe callback or by the timer) rejects the request and stores nothing
FailureStoresNothing ==
  \A t \in Tasks :
    /\ ProjectSubscribed(t) \/ ChapterSubscribed(t)
    /\ tasks[t].sub = "rejected"
    => /\ tasks'[t].pc = "done"
       /\ tasks'[t].result = "rejected"
       /\ tasks'[t].ret = <<>>
       /\ UNCHANGED <<projectDocuments, chapterDeltas>>

\* A request for a key that is not cached, made while a connection value
\* exists, goes on to fetch and subscribe
MissSubscribes ==
  /\ \A t \in Tasks, projectId \in Projects :
       /\ GetProjectDocCall(t, projectId)
       /\ projectDocuments[projectId] = <<>>
       /\ connectionAsyncVariable # 0
       => tasks'[t].pc = "projAwaitConn"
  /\ \A t \in Tasks, projectId \in Projects, ref \in Refs :
       /\ GetChapterDocCall(t, projectId, ref)
       /\ chapterDeltas[createTextId(projectId, ref)] = <<>>
       /\ connectionAsyncVariable # 0
       => tasks'[t].pc \in {"projAwaitConn", "haveProject"}

\* Requests that failed at their subscription, on a connection that was made
SubscriptionFailed ==
  {t \in Tasks : /\ tasks[t].op \in {"getProjectDoc", "getChapterDoc"}
                 /\ tasks[t].pc = "done" /\ tasks[t].result = "rejected"
                 /\ tasks[t].av # 0 /\ connAvs[tasks[t].av].state = "resolved"}

\* C19: a request whose subscription is rejected, by the subscribe callback or
\* by the timer of its value, rejects and stores no cache entry, and a later
\* request for a key without an entry fetches and subscribes anew.
C19_FailureNotCached == [][FailureStoresNothing /\ MissSubscribes]_vars

\* C19 witness: a getChapterDoc request failed at its subscription, nothing
\* is cached for its key, and a later request for the same key is subscribing
C19_Witness ==
  \E t \in SubscriptionFailed, u \in Tasks :
    /\ tasks[t].op = "getChapterDoc" /\ tasks[u].op = "getChapterDoc"
    /\ tasks[t].ref = tasks[u].ref /\ tasks[t].project = tasks[u].project
    /\ chapterDeltas[createTextId(tasks[t].project, tasks[t].ref[1])] = <<>>
    /\ tasks[u].pc = "chapAwaitSub"

\* getChapterDoc requests for a reference the project's texts do not hold as
\* a valid chapter
RequestsOfMissingRef ==
  {t \in Tasks : /\ tasks[t].op = "getChapterDoc"
                 /\ ~\E textInfo \in ProjectTexts(tasks[t].project) :
                       /\ bookNumberToId(textInfo.bookNum) = tasks[t].ref[1].book
                       /\ \E chapter \in textInfo.chapters :
                            /\ chapter.number = tasks[t].ref[1].chapterNum
                            /\ chapter.isValid}

\* C20: a getChapterDoc request whose reference is not a valid chapter of the
\* project never reaches the fetch+subscribe of the chapter document, never
\* succeeds, and nothing is cached for its text id; a request that ended with
\* the not-found error had obtained the project document and asked for such a
\* reference.
C20_MissingRefNotFetched ==
  /\ \A t \in RequestsOfMissingRef :
       /\ tasks[t].pc \notin {"chapAwaitConn", "chapAwaitSub"}
       /\ tasks[t].pc = "done" => tasks[t].result \in {"notFound", "rejected", "precondition"}
       /\ chapterDeltas[createTextId(tasks[t].project, tasks[t].ref[1])] = <<>>
  /\ \A t \in Tasks :
       tasks[t].pc = "done" /\ tasks[t].result = "notFound"
         => t \in RequestsOfMissingRef

\* C20 witness: the project document was obtained and cached, and the request
\* for chapter 2, which is not valid, ended with the not-found error
C20_Witness ==
  \E t \in RequestsOfMissingRef :
    /\ tasks[t].pc = "done" /\ tasks[t].result = "notFound"
    /\ projectDocuments[tasks[t].project] # <<>>

\* The snapshot was last recomputed less than the throttle interval ago
WithinThrottleWindow == now - lastRecomputedAt < GET_PROJECTS_THROTTLE_MS

\* A non-forced call made inside the window by a factory that does not know
\* itself logged out returns the snapshot at once
ThrottledCallReturnsSnapshot ==
  \A c \in Callers :
    getAvailableProjects(c, FALSE) /\ WithinThrottleWindow /\ ~isLoggedOut
      => /\ callers'[c].pc = "done"
         /\ callers'[c].outcome = "resolved"
         /\ callers'[c].result = <<lastAvailableProjects>>

\* A non-forced call starts no remote call inside the window
ThrottledCallMakesNoRemoteCall ==
  \A c \in Callers :
    RunExclusive(c) /\ ~callers[c].force /\ WithinThrottleWindow
      => callers'[c].pc = "done" /\ dirRemoteCalls' = dirRemoteCalls

\* A recomputation inside the window is the work of a forced call
EarlyRecomputeIsForced ==
  \A c \in Callers :
    /\ callers[c].pc = "fetching"
    /\ lastAvailableProjects' # lastAvailableProjects
    /\ WithinThrottleWindow
    => callers[c].force

\* C21: a non-forced getAvailableProjects() call made less than
\* GET_PROJECTS_THROTTLE_MS after the last successful recomputation returns
\* the cached snapshot and makes no remote call, and only a forced call
\* recomputes the snapshot inside that interval.
C21_Throttle ==
  [][/\ ThrottledCallReturnsSnapshot
     /\ ThrottledCallMakesNoRemoteCall
     /\ EarlyRecomputeIsForced]_vars

\* C22: when the remote directory call of a getAvailableProjects() call fails
\* (it throws, or the request is answered with an error status), the call
\* resolves, and what it resolves with has the content of the last-known
\* snapshot.
C22_FailureReturnsSnapshot ==
  [][\A c \in Callers, answer \in DirectoryAnswers :
       GetProjectsReturn(c, answer) /\ answer.kind # "projects"
         => /\ callers'[c].outcome = "resolved"
            /\ callers'[c].result[1].items = lastAvailableProjects.items]_vars

\* C23: a worker started without an IPC channel never runs: once started it
\* has exited with code 100, it has handled no message, taken no signal (its
\* exit code is never 0), created no message id and sent or tried to send
\* nothing.
C23_NotForkedExits100 ==
  ~forked =>
    /\ wpc \in {"unstarted", "exited"}
    /\ wpc = "exited" => exitCode = <<100>>
    /\ \A type \in MessageTypes : wRecvCount[type] = 0
    /\ nextMsgId = 0
    /\ wSent = <<>> /\ w2h = <<>> /\ wDropped = <<>>
    /\ ~receivedPing /\ ~receivedPong /\ initStep = "none"

\* C23 witness: the worker without a channel was started and has exited
\* with 100
C23_Witness == ~forked /\ wpc = "exited" /\ exitCode = <<100>>

\* Handling the message throws: a projectResults message finds the pending
\* getProjects value already settled by its deadline
HandlerThrows(message) ==
  /\ message.type = "projectResults"
  /\ pendingProjectResults # 0
  /\ gpAv[pendingProjectResults].state # "pending"

\* C24: when the handling of a received message throws, the worker exits with
\* code 101 at that message; the worker exits with 101 for no other reason;
\* and after that exit it takes no further message from the channel and sends
\* nothing.
C24_HandlerErrorExits101 ==
  /\ [][WorkerReceive /\ HandlerThrows(Head(h2w))
          => wpc' = "exited" /\ exitCode' = <<101>>]_vars
  /\ [][exitCode' = <<101>> /\ exitCode # <<101>>
          => WorkerReceive /\ HandlerThrows(Head(h2w))]_vars
  /\ [][exitCode = <<101>>
          => UNCHANGED <<wpc, exitCode, wRecvCount, wSent, w2h, wDropped>>
             /\ Len(h2w') >= Len(h2w)]_vars

\* C24 witness: the worker exited with 101 on a projectResults message while
\* another message was still waiting in the channel
C24_Witness ==
  /\ wpc = "exited" /\ exitCode = <<101>>
  /\ wRecvCount["projectResults"] > 0
  /\ h2w # <<>>

\* The message types the worker's switch handles (index.ts 103-118) and those
\* the host's switch handles (child-process-handler.ts 63-72)
WorkerHandledTypes == {"initialize", "ping", "pong", "projectResults", "shutdown"}
HostHandledTypes == {"getProjects", "ping", "pong"}

\* C25: a received message of a type the receiver does not handle changes
\* nothing but the channel it was taken from: the receiver keeps running,
\* sends nothing and uses no message id, and its handshake flags, its
\* configuration and its pending request are as before.
C25_UnhandledTypeOnlyLogged ==
  /\ [][WorkerReceive /\ Head(h2w).type \notin WorkerHandledTypes
          => UNCHANGED <<wpc, exitCode, wSent, w2h, wDropped, nextMsgId, receivedPing,
                         receivedPong, config, currentAuthToken, rpcClient, initStep,
                         pendingProjectResults, gpAv, getProjectsMessage>>]_vars
  /\ [][HostReceive /\ Head(w2h).type \notin HostHandledTypes
          => UNCHANGED <<childProcess, hSent, h2w, hNextMessageId, hFetching,
                         hInitializing, hRemoteCalls>>]_vars

\* C25 witness: the worker, still running, has taken a message of an unknown
\* type and the host has taken the worker's error message
C25_Witness ==
  /\ wpc = "running"
  /\ wRecvCount[UnknownType] > 0
  /\ hRecvCount["error"] > 0
  /\ childProcess

\* C26: the worker has sent exactly as many pongs as it has received pings;
\* a received ping marks ping-received and sends one pong and nothing else; a
\* received pong marks pong-received and sends nothing.
C26_OnePongPerPing ==
  /\ [](/\ CountType(wSent, "pong") = wRecvCount["ping"]
        /\ wRecvCount["ping"] > 0 => receivedPing
        /\ wRecvCount["pong"] > 0 => receivedPong)
  /\ [][WorkerReceive /\ Head(h2w).type = "ping"
          => /\ receivedPing'
             /\ Len(wSent') = Len(wSent) + 1
             /\ wSent'[Len(wSent')].type = "pong"
             /\ w2h' = Append(w2h, wSent'[Len(wSent')])]_vars
  /\ [][WorkerReceive /\ Head(h2w).type = "pong"
          => receivedPong' /\ UNCHANGED <<wSent, w2h, wDropped, receivedPing>>]_vars

\* C26 witness: two pings and a pong were received and two pongs sent
C26_Witness ==
  /\ wRecvCount["ping"] = 2
  /\ wRecvCount["pong"] = 1
  /\ CountType(wSent, "pong") = 2

AnsweredGetProjects == CountType(hSent, "projectResults")

\* C27: every getProjects message the host has received is either still being
\* looked up or has been answered with exactly one projectResults message, and
\* each of them is eventually answered, whatever the outcome of the lookup.
C27_GetProjectsAnswered ==
  /\ [](AnsweredGetProjects + hFetching = hRecvCount["getProjects"])
  /\ \A n \in 1..MaxPeerMsgs :
       (hRecvCount["getProjects"] >= n) ~> (AnsweredGetProjects >= n)

ReturnsTrue(i) == logins[i].pc # "returnedTrue" /\ logins'[i].pc = "returnedTrue"

\* C28: when login() returns true, the exchange of its authorization code for
\* tokens has completed and the tokens are stored; a login() whose exchange
\* failed has not returned true.
C28_LoginTrueMeansLoggedIn ==
  /\ [][\A i \in Logins :
          ReturnsTrue(i) => logins'[i].exchange = "stored" /\ authTokens' = "valid"]_vars
  /\ [](\A i \in Logins :
          logins[i].exchange = "failed" => logins[i].pc # "returnedTrue")

\* caller c holds the directory mutex and takes the step
StepOfMutexHolder(c) ==
  /\ getProjectsMutex # <<>>
  /\ Head(getProjectsMutex) = c
  /\ callers[c].pc = "fetching"
  /\ callers'[c].pc = "done"

\* C29: the snapshot and its timestamp change only in a step of the caller
\* that holds the directory mutex, forced calls included.
C29_WritesOnlyUnderMutex ==
  [][lastGetProjectsTime' # lastGetProjectsTime
       \/ lastAvailableProjects' # lastAvailableProjects
     => \E c \in Callers : StepOfMutexHolder(c)]_vars

StrictlyIncreasingIds(log) ==
  \A i, j \in 1..Len(log) : i < j => log[i].id < log[j].id

\* C30: the ids of the messages the worker has sent are strictly increasing in
\* send order, pongs included, and so are the ids of the messages the host has
\* sent.
C30_IdsStrictlyIncreasing ==
  /\ StrictlyIncreasingIds(wSent)
  /\ StrictlyIncreasingIds(hSent)

FactoryRegistrationStarted ==
  \/ getProjectsMessage
  \/ initStep \in {"registering", "registered"}

\* C31: the worker registers its PDP factory only after the control-plane
\* connection and then the back-end connection have both succeeded, and no
\* getProjects call reaches the worker before the registration was made.
C31_RegisterAfterBothConnections ==
  /\ FactoryRegistrationStarted
       => initLog = <<"papiConnected", "sfConnected", "registerCalled">>
  /\ Len(gpCalls) > 0 => FactoryRegistrationStarted

\* C31 witness: the factory is registered and a getProjects call was served
C31_Witness ==
  /\ initStep = "registered"
  /\ initLog = <<"papiConnected", "sfConnected", "registerCalled">>
  /\ Len(gpCalls) > 0

InitializeDelivered == WorkerReceive /\ Head(h2w).type = "initialize"

\* C32: with the worker and the host alone on the FIFO channels, the worker
\* has received the host's ping and the host's pong whenever an initialize
\* message is delivered to it.
C32_HandshakeBeforeInitialize ==
  [][InitializeDelivered
       => /\ receivedPing /\ receivedPong
          /\ wRecvCount["ping"] > 0 /\ wRecvCount["pong"] > 0]_vars

\* C32 witness: an initialize message sent by the host was delivered
C32_Witness ==
  /\ wRecvCount["initialize"] > 0
  /\ CountType(hSent, "initialize") > 0
  /\ receivedPing /\ receivedPong

\* C33: with the worker and the host alone on the channel, the worker sends at
\* most one pong, the host starts and sends at most one initialize message, and
\* the worker never answers 'Already initialized'.
C33_OneInitialize ==
  /\ CountType(wSent, "pong") <= 1
  /\ CountType(wSent, "pong") = wRecvCount["ping"]
  /\ hInitializing + CountType(hSent, "initialize") <= 1
  /\ CountType(wSent, "error") = 0

\* C33 witness: the one initialize message was sent and handled
C33_Witness ==
  /\ CountType(hSent, "initialize") = 1
  /\ wRecvCount["initialize"] = 1
  /\ CountType(wSent, "pong") = 1
  /\ initStep # "none"

\* the connections disconnect() has closed: nothing else closes a transport
DisconnectedConnections ==
  {s \in 1..Len(sockets) : sockets[s].state \in {"closing", "closed"}}

DisconnectInProgress ==
  \E t \in Tasks : tasks[t].op = "disconnect" /\ tasks[t].pc \notin {"idle", "done"}

\* the documents the two caches hold
CachedDocuments ==
  {projectDocuments[p][1].doc : p \in {q \in Projects : projectDocuments[q] # <<>>}}
    \cup {chapterDeltas[k][1].doc : k \in {j \in TextIds : chapterDeltas[j] # <<>>}}

\* a request that completes late stores no document of a connection that
\* disconnect() has closed
LateCompletionStoresNothing ==
  [][\A t \in Tasks :
       /\ tasks[t].pc \in {"projAwaitSub", "chapAwaitSub"}
       /\ tasks[t].conn \in DisconnectedConnections
       /\ tasks'[t].pc # tasks[t].pc
       => UNCHANGED <<projectDocuments, chapterDeltas>>]_vars

\* once a disconnect() has completed and none is under way, no cache holds a
\* document of a connection that was closed
NoHandleOfClosedConnection ==
  [](epoch > 0 /\ ~DisconnectInProgress
       => \A doc \in CachedDocuments : doc.conn \notin DisconnectedConnections)

\* C34: a getProjectDoc / getChapterDoc request whose subscription completes
\* after disconnect() closed its connection stores nothing in the caches, and
\* after a completed disconnect() the caches hold no document of a closed
\* connection.
C34_NoStaleHandleAfterDisconnect ==
  /\ LateCompletionStoresNothing
  /\ NoHandleOfClosedConnection

\* a getProjects() call is made while the value the worker holds has been
\* rejected (its deadline passed without a reply)
CallAfterLostReply ==
  /\ Len(gpCalls') = Len(gpCalls) + 1
  /\ pendingProjectResults # 0
  /\ gpAv[pendingProjectResults].state = "rejected"

\* C35: a getProjects() call made after the pending value was rejected without
\* a reply creates a new pending value, returns it and sends a new getProjects
\* message.
C35_GetProjectsRecovers ==
  [][CallAfterLostReply
       => /\ Len(gpAv') = Len(gpAv) + 1
          /\ pendingProjectResults' = Len(gpAv')
          /\ gpAv'[Len(gpAv')].state = "pending"
          /\ gpCalls'[Len(gpCalls')].promise = Len(gpAv')
          /\ CountType(wSent', "getProjects") + CountType(wDropped', "getProjects")
               = CountType(wSent, "getProjects") + CountType(wDropped, "getProjects") + 1]_vars

\* a projectResults message is delivered after the value it answers was
\* rejected by its deadline
LateProjectResults ==
  /\ WorkerReceive
  /\ Head(h2w).type = "projectResults"
  /\ pendingProjectResults # 0
  /\ gpAv[pendingProjectResults].state = "rejected"

\* C36: a projectResults message that arrives after the pending getProjects
\* value has timed out leaves the worker running, with no exit code.
C36_LateReplyKeepsWorkerRunning ==
  [][LateProjectResults => wpc' = "running" /\ exitCode' = <<>>]_vars

\* an open or error event of transport s, which disconnect() has discarded
EventOfDiscardedTransport(s) ==
  /\ SocketOpen(s) \/ SocketError(s)
  /\ s # socket
  /\ sockets[s].state \in {"closing", "closed"}

\* C37: an open or error event of a transport that disconnect() discarded
\* leaves every connection value as it is; the value of a later connect() is
\* settled only by its own transport or its deadline.
C37_OldTransportEventsIgnored ==
  [][\A s \in 1..Len(sockets) : EventOfDiscardedTransport(s) => UNCHANGED connAvs]_vars

WorkerInitialized ==
  /\ wRecvCount["ping"] > 0
  /\ wRecvCount["pong"] > 0
  /\ wRecvCount["initialize"] > 0

TotalSent(type) == CountType(wSent, type) + CountType(hSent, type)

\* sendInitializeMessage has thrown for want of a login or a token
HostGotNoToken ==
  hRecvCount["pong"] > hInitializing + CountType(hSent, "initialize")

\* the worker was not forked, or was ended by a signal
WorkerEndedFromOutside == ~forked \/ exitCode = <<0>>

\* C38: with fair scheduling of both processes over the FIFO channels, a forked
\* worker that no signal ends and a host that obtains an auth token, the worker
\* eventually has received ping, pong and initialize; the two processes never
\* send more than two pings and two pongs between them, and exactly two of
\* each when the handshake is done.
C38_HandshakeCompletes ==
  /\ [](TotalSent("ping") <= 2 /\ TotalSent("pong") <= 2)
  /\ [](WorkerInitialized => TotalSent("ping") = 2 /\ TotalSent("pong") = 2)
  /\ <>(WorkerInitialized \/ HostGotNoToken \/ WorkerEndedFromOutside)

\* C38 witness: the handshake is done in a run without a signal
C38_Witness ==
  /\ WorkerInitialized
  /\ forked /\ exitCode = <<>>
  /\ TotalSent("ping") = 2 /\ TotalSent("pong") = 2

RegistrationsOf(projectId) ==
  {i \in 1..Len(pdpRegistrations) : pdpRegistrations[i].project = projectId}

ReturnedPdpIds(projectId) ==
  {pdpCalls[c].result[1] :
     c \in {d \in PdpCallers : pdpCalls[d].pc = "done" /\ pdpCalls[d].project = projectId}}

\* C39: at most one project data provider is registered per project id, and
\* all calls of getProjectDataProviderId for one project id return the same
\* provider id, concurrent calls included.
C39_OneProviderPerProject ==
  \A projectId \in PdpProjects :
    /\ Cardinality(RegistrationsOf(projectId)) <= 1
    /\ Cardinality(ReturnedPdpIds(projectId)) <= 1

\* A non-forced call made while the factory is marked logged out is answered
\* at once with a new empty array and neither takes the mutex nor calls out.
ShortCircuitWhileLoggedOut ==
  \A c \in Callers :
    getAvailableProjects(c, FALSE) /\ isLoggedOut =>
      /\ callers'[c].pc = "done" /\ callers'[c].outcome = "resolved"
      /\ callers'[c].result[1].items = <<>>
      /\ callers'[c].result[1].ref # lastAvailableProjects.ref
      /\ callers'[c].fetched = "none"
      /\ getProjectsMutex' = getProjectsMutex
      /\ dirRemoteCalls' = dirRemoteCalls

\* The mark is set by a refresh that failed with the not-logged-in error and by
\* nothing else, and is cleared by a session-change event and by nothing else.
LoggedOutUntilSessionChange ==
  /\ (~isLoggedOut /\ isLoggedOut') =>
       \E c \in Callers :
         GetProjectsReturn(c, ApiAnswer("throw", <<>>, 0, NOT_LOGGED_IN_ERROR_MESSAGE))
  /\ (isLoggedOut /\ ~isLoggedOut') => SessionChange

\* The first non-forced call outside the throttle window after a session change
\* has made a remote call of its own by the time it returns.
RecoveryCallFetches ==
  \A c \in recovery'.calls : callers'[c].pc = "done" => callers'[c].fetched # "none"

\* The same call is never answered by the short circuit or from the throttle:
\* it returns after its own remote call, or with the snapshot that a call ahead
\* of it on the mutex has stored while it waited.
RecoveryCallFetchesOrSharesRefresh ==
  \A c \in recovery'.calls :
    /\ callers'[c].pc # "idle" /\ ~callers'[c].force
    /\ (callers'[c].pc = "done" /\ callers'[c].fetched = "none") =>
         /\ callers'[c].outcome = "resolved"
         /\ callers'[c].before # <<>>
         /\ callers'[c].result[1].ref # callers'[c].before[1]
         /\ callers[c].pc # "done" => callers'[c].result[1] = lastAvailableProjects'

====
